---- MODULE Spec2Model ----
(***************************************************************************)
(* Scoped preference and conversational-state subsystem of takopi-matrix:  *)
(* the per-thread state store (thread_state.py), the built-in commands     *)
(* that read and write it (bridge/commands/builtin.py) and the resolution  *)
(* functions they call.                                                    *)
(*                                                                         *)
(* Python values are represented as follows.  A str is a sequence of       *)
(* one-character strings; None in a "str | None" position is the sentinel  *)
(* None; None in an "object | None" position (RunContext, EngineOverrides, *)
(* ResumeToken) is the sentinel NoneObj.  A dict is a function whose       *)
(* DOMAIN is the set of its keys.  Room ids are never transformed by the   *)
(* code and are kept as opaque strings.                                    *)
(***************************************************************************)
EXTENDS Integers, Sequences, FiniteSets, TLC

VARIABLES threadStore, roomStore, cfg, last, steps, sched, repoEnv

vars == <<threadStore, roomStore, cfg, last, steps, sched, repoEnv>>

(* Bound on the number of operations of one run. *)
MaxOps == 2

None == <<"<None>">>
NoneObj == [none |-> TRUE]

----------------------------------------------------------------------------
(* Strings *)

UpperChars == <<"A","B","C","D","E","F","G","H","I","J","K","L","M",
                "N","O","P","Q","R","S","T","U","V","W","X","Y","Z">>
LowerChars == <<"a","b","c","d","e","f","g","h","i","j","k","l","m",
                "n","o","p","q","r","s","t","u","v","w","x","y","z">>

IsSpace(c) == c \in {" ", "\t", "\n"}

LowerChar(c) ==
    IF \E i \in 1..Len(UpperChars) : UpperChars[i] = c
    THEN LowerChars[CHOOSE i \in 1..Len(UpperChars) : UpperChars[i] = c]
    ELSE c

(* str.lower() *)
Lower(s) == [i \in 1..Len(s) |-> LowerChar(s[i])]

RECURSIVE LStrip(_)
LStrip(s) ==
    IF s = <<>> THEN s
    ELSE IF IsSpace(Head(s)) THEN LStrip(Tail(s)) ELSE s

RECURSIVE RStrip(_)
RStrip(s) ==
    IF s = <<>> THEN s
    ELSE IF IsSpace(s[Len(s)]) THEN RStrip(SubSeq(s, 1, Len(s) - 1)) ELSE s

(* str.strip() *)
Strip(s) == RStrip(LStrip(s))

(* A JSON number where the document should hold a text, and the error a  *)
(* call raises, in the place of the text it would have returned.          *)
Number == <<"<Number>">>

AttributeError == <<"<AttributeError>">>

(* value.strip() raises for a value that is not a str. *)
(* _normalize_text that keeps a blank text as it is. *)
_normalize_text_KeepBlank(value) ==
    IF value = None THEN None
    ELSE IF value = Number THEN AttributeError
    ELSE IF value = <<>> THEN None ELSE value

_normalize_text(value) ==
    IF value = None THEN None
    ELSE IF value = Number THEN AttributeError
    ELSE LET v == Strip(value) IN IF v = <<>> THEN None ELSE v

(* _normalize_engine_id that trims and keeps the letter case. *)
_normalize_engine_id_KeepCase(value) ==
    IF value = None THEN None
    ELSE IF Strip(value) = <<>> THEN None ELSE Strip(value)

_normalize_engine_id(value) ==
    IF value = None THEN None
    ELSE LET v == Lower(Strip(value)) IN IF v = <<>> THEN None ELSE v

----------------------------------------------------------------------------
(* Dictionaries *)

EmptyDict == <<>>

(* isinstance(value, str) for a value in a text's place. *)
IsStr(value) == value # None /\ value # Number

(* A JSON value of another type where the document should hold a map, and  *)
(* isinstance(value, dict) for a value in a map's place.                   *)
NotAMap == [k \in {<<"<NotAMap>">>} |-> <<>>]

IsDict(value) == <<"<NotAMap>">> \notin DOMAIN value

(* A text where the document should hold an override's map, and           *)
(* isinstance(value, dict) for a value in its place.                       *)
NotAnOverride == [text |-> <<"i","n","v","a","l","i","d">>]

IsDictValue(value) == "text" \notin DOMAIN value

(* A method that raised, in the place of the object it would return. *)
Raised(error) == [error |-> error]

Has(d, k) == k \in DOMAIN d

DictSet(d, k, v) == [x \in (DOMAIN d) \cup {k} |-> IF x = k THEN v ELSE d[x]]

DictPop(d, k) == [x \in (DOMAIN d) \ {k} |-> d[x]]

----------------------------------------------------------------------------
(* Python objects *)

RunContext(project, branch) == [project |-> project, branch |-> branch]

EngineOverrides(model, reasoning) == [model |-> model, reasoning |-> reasoning]

ResumeToken(engine, value) == [engine |-> engine, value |-> value]

----------------------------------------------------------------------------
(* Durable versioned store (JsonStateStore): the in-memory document, the   *)
(* persisted file and the fingerprint of the file as last loaded or saved. *)
(* The fingerprint is represented by the content it was taken of.          *)

STATE_VERSION == 1

NoFile == [nofile |-> TRUE]

Document(version, rooms) == [version |-> version, rooms |-> rooms]

_new_state == Document(STATE_VERSION, EmptyDict)

NewStore(factory) == [mem |-> factory, disk |-> NoFile, loaded |-> NoFile]

(* A reload check that never reloads. *)
_reload_locked_if_needed_Never(S) == S

_reload_locked_if_needed(S) ==
    IF S.disk = S.loaded THEN S
    ELSE [S EXCEPT !.mem = IF S.disk = NoFile THEN _new_state ELSE S.disk,
                   !.loaded = S.disk]

_save_locked(S) == [S EXCEPT !.disk = S.mem, !.loaded = S.mem]

WithRooms(S, rooms) == [S EXCEPT !.mem.rooms = rooms]

(* What a store operation yields: the store afterwards, the value returned *)
(* to the caller, and whether the operation wrote the file.                *)
Result(S, ret, wrote) == [store |-> S, ret |-> ret, wrote |-> wrote]

----------------------------------------------------------------------------
(* Per-thread state store (MatrixThreadStateStore) *)

_new_thread_entry ==
    [context_project |-> None,
     context_branch |-> None,
     default_engine |-> None,
     trigger_mode |-> None,
     engine_overrides |-> EmptyDict,
     sessions |-> EmptyDict]

_thread_is_empty(thread_state) ==
    IF _normalize_text(thread_state.context_project) # None THEN FALSE
    ELSE IF _normalize_text(thread_state.context_branch) # None THEN FALSE
    ELSE IF _normalize_text(thread_state.default_engine) # None THEN FALSE
    ELSE IF _normalize_text(thread_state.trigger_mode) # None THEN FALSE
    ELSE IF thread_state.engine_overrides # EmptyDict THEN FALSE
    ELSE ~(thread_state.sessions # EmptyDict)

(* room = rooms.get(room_id); thread_state = room.get(thread_key), with    *)
(* NoneObj when either is missing.                                         *)
LookupThread(rooms, room_id, thread_key) ==
    IF Has(rooms, room_id) /\ Has(rooms[room_id], thread_key)
    THEN rooms[room_id][thread_key]
    ELSE NoneObj

_ensure_thread_locked(rooms, room_id, thread_root_event_id) ==
    LET rooms1 == IF Has(rooms, room_id) THEN rooms
                  ELSE DictSet(rooms, room_id, EmptyDict)
    IN IF Has(rooms1[room_id], thread_root_event_id) THEN rooms1
       ELSE DictSet(rooms1, room_id,
                    DictSet(rooms1[room_id], thread_root_event_id,
                            _new_thread_entry))

(* In-place update of the entry for (room_id, thread_key). *)
StoreThread(rooms, room_id, thread_key, thread_state) ==
    DictSet(rooms, room_id, DictSet(rooms[room_id], thread_key, thread_state))

(* PruneThread without the second level: the emptied room is kept. *)
PruneThread_KeepRoom(rooms, room_id, thread_key) ==
    IF _thread_is_empty(rooms[room_id][thread_key])
    THEN DictSet(rooms, room_id, DictPop(rooms[room_id], thread_key))
    ELSE rooms

(* if _thread_is_empty(thread_state): room.pop(thread_key);                *)
(*     if not room: rooms.pop(room_id)                                     *)
PruneThread(rooms, room_id, thread_key) ==
    IF _thread_is_empty(rooms[room_id][thread_key])
    THEN LET room == DictPop(rooms[room_id], thread_key)
         IN IF room = EmptyDict THEN DictPop(rooms, room_id)
            ELSE DictSet(rooms, room_id, room)
    ELSE rooms

(* get_session_resume that reads the in-memory document without the        *)
(* reload check.                                                           *)
get_session_resume_NoReload(S, room_id, thread_root_event_id, engine) ==
    LET thread_key == _normalize_text(thread_root_event_id)
        engine_key == _normalize_engine_id(engine)
    IN IF thread_key = None \/ engine_key = None THEN Result(S, NoneObj, FALSE)
       ELSE LET thread_state == LookupThread(S.mem.rooms, room_id, thread_key)
            IN IF thread_state = NoneObj THEN Result(S, NoneObj, FALSE)
               ELSE IF ~IsDict(thread_state.sessions)
                       \/ ~Has(thread_state.sessions, engine_key)
                       \/ ~IsStr(thread_state.sessions[engine_key])
                       \/ thread_state.sessions[engine_key] = <<>>
                    THEN Result(S, NoneObj, FALSE)
                    ELSE Result(S,
                                ResumeToken(engine_key,
                                            thread_state.sessions[engine_key]),
                                FALSE)

get_session_resume(S, room_id, thread_root_event_id, engine) ==
    LET thread_key == _normalize_text(thread_root_event_id)
        engine_key == _normalize_engine_id(engine)
    IN IF thread_key = None \/ engine_key = None THEN Result(S, NoneObj, FALSE)
       ELSE LET S1 == _reload_locked_if_needed(S)
                thread_state == LookupThread(S1.mem.rooms, room_id, thread_key)
            IN IF thread_state = NoneObj THEN Result(S1, NoneObj, FALSE)
               ELSE IF ~IsDict(thread_state.sessions)
                       \/ ~Has(thread_state.sessions, engine_key)
                       \/ ~IsStr(thread_state.sessions[engine_key])
                       \/ thread_state.sessions[engine_key] = <<>>
                    THEN Result(S1, NoneObj, FALSE)
                    ELSE Result(S1,
                                ResumeToken(engine_key,
                                            thread_state.sessions[engine_key]),
                                FALSE)

(* set_session_resume that returns without saving. *)
set_session_resume_Unsaved(S, room_id, thread_root_event_id, token) ==
    LET thread_key == _normalize_text(thread_root_event_id)
        engine_key == _normalize_engine_id(token.engine)
        resume_value == _normalize_text(token.value)
    IN IF thread_key = None \/ engine_key = None \/ resume_value = None
       THEN Result(S, None, FALSE)
       ELSE LET S1 == _reload_locked_if_needed(S)
                rooms1 == _ensure_thread_locked(S1.mem.rooms, room_id, thread_key)
                thread_state == rooms1[room_id][thread_key]
                rooms2 == StoreThread(rooms1, room_id, thread_key,
                              [thread_state EXCEPT !.sessions =
                                  DictSet(@, engine_key, resume_value)])
            IN Result(WithRooms(S1, rooms2), None, FALSE)

(* set_session_resume that stores the token as the thread's only one. *)
set_session_resume_Replace(S, room_id, thread_root_event_id, token) ==
    LET thread_key == _normalize_text(thread_root_event_id)
        engine_key == _normalize_engine_id(token.engine)
        resume_value == _normalize_text(token.value)
    IN IF thread_key = None \/ engine_key = None \/ resume_value = None
       THEN Result(S, None, FALSE)
       ELSE LET S1 == _reload_locked_if_needed(S)
                rooms1 == _ensure_thread_locked(S1.mem.rooms, room_id, thread_key)
                thread_state == rooms1[room_id][thread_key]
                rooms2 == StoreThread(rooms1, room_id, thread_key,
                              [thread_state EXCEPT !.sessions =
                                  DictSet(EmptyDict, engine_key, resume_value)])
            IN Result(_save_locked(WithRooms(S1, rooms2)), None, TRUE)

set_session_resume(S, room_id, thread_root_event_id, token) ==
    LET thread_key == _normalize_text(thread_root_event_id)
        engine_key == _normalize_engine_id(token.engine)
        resume_value == _normalize_text(token.value)
    IN IF thread_key = None \/ engine_key = None \/ resume_value = None
       THEN Result(S, None, FALSE)
       ELSE LET S1 == _reload_locked_if_needed(S)
                rooms1 == _ensure_thread_locked(S1.mem.rooms, room_id, thread_key)
                thread_state == rooms1[room_id][thread_key]
                rooms2 == StoreThread(rooms1, room_id, thread_key,
                              [thread_state EXCEPT !.sessions =
                                  DictSet(@, engine_key, resume_value)])
            IN Result(_save_locked(WithRooms(S1, rooms2)), None, TRUE)

(* clear_sessions that resets the whole entry instead of its tokens. *)
clear_sessions_ResetEntry(S, room_id, thread_root_event_id) ==
    LET thread_key == _normalize_text(thread_root_event_id)
    IN IF thread_key = None THEN Result(S, None, FALSE)
       ELSE LET S1 == _reload_locked_if_needed(S)
                rooms == S1.mem.rooms
                thread_state == LookupThread(rooms, room_id, thread_key)
            IN IF thread_state = NoneObj THEN Result(S1, None, FALSE)
               ELSE LET room == DictPop(rooms[room_id], thread_key)
                        rooms2 == IF room = EmptyDict
                                  THEN DictPop(rooms, room_id)
                                  ELSE DictSet(rooms, room_id, room)
                    IN Result(_save_locked(WithRooms(S1, rooms2)), None, TRUE)

clear_sessions(S, room_id, thread_root_event_id) ==
    LET thread_key == _normalize_text(thread_root_event_id)
    IN IF thread_key = None THEN Result(S, None, FALSE)
       ELSE LET S1 == _reload_locked_if_needed(S)
                rooms == S1.mem.rooms
                thread_state == LookupThread(rooms, room_id, thread_key)
            IN IF thread_state = NoneObj THEN Result(S1, None, FALSE)
               ELSE LET cleared == [thread_state EXCEPT !.sessions = EmptyDict]
                        room == IF _thread_is_empty(cleared)
                                THEN DictPop(rooms[room_id], thread_key)
                                ELSE DictSet(rooms[room_id], thread_key, cleared)
                        rooms2 == IF room = EmptyDict
                                  THEN DictPop(rooms, room_id)
                                  ELSE DictSet(rooms, room_id, room)
                    IN Result(_save_locked(WithRooms(S1, rooms2)), None, TRUE)

(* get_context that returns the project without its branch. *)
get_context_NoBranch(S, room_id, thread_root_event_id) ==
    LET thread_key == _normalize_text(thread_root_event_id)
    IN IF thread_key = None THEN Result(S, NoneObj, FALSE)
       ELSE LET S1 == _reload_locked_if_needed(S)
                thread_state == LookupThread(S1.mem.rooms, room_id, thread_key)
            IN IF thread_state = NoneObj THEN Result(S1, NoneObj, FALSE)
               ELSE LET project == _normalize_text(thread_state.context_project)
                    IN IF project = AttributeError
                       THEN Result(S1, Raised(AttributeError), FALSE)
                       ELSE IF project = None THEN Result(S1, NoneObj, FALSE)
                       ELSE Result(S1, RunContext(project, None), FALSE)

get_context(S, room_id, thread_root_event_id) ==
    LET thread_key == _normalize_text(thread_root_event_id)
    IN IF thread_key = None THEN Result(S, NoneObj, FALSE)
       ELSE LET S1 == _reload_locked_if_needed(S)
                thread_state == LookupThread(S1.mem.rooms, room_id, thread_key)
            IN IF thread_state = NoneObj THEN Result(S1, NoneObj, FALSE)
               ELSE LET project == _normalize_text(thread_state.context_project)
                        branch == _normalize_text(thread_state.context_branch)
                    IN IF project = AttributeError \/ branch = AttributeError
                       THEN Result(S1, Raised(AttributeError), FALSE)
                       ELSE IF project = None THEN Result(S1, NoneObj, FALSE)
                       ELSE Result(S1, RunContext(project, branch), FALSE)

(* set_context that changes the in-memory document and does not save it. *)
set_context_Unsaved(S, room_id, thread_root_event_id, context) ==
    LET thread_key == _normalize_text(thread_root_event_id)
        project == IF context # NoneObj THEN _normalize_text(context.project)
                   ELSE None
        branch == IF context # NoneObj THEN _normalize_text(context.branch)
                  ELSE None
    IN IF thread_key = None THEN Result(S, None, FALSE)
       ELSE LET S1 == _reload_locked_if_needed(S)
                rooms == S1.mem.rooms
                thread_state == LookupThread(rooms, room_id, thread_key)
            IN IF project = None
               THEN IF thread_state = NoneObj THEN Result(S1, None, FALSE)
                    ELSE LET rooms1 == StoreThread(rooms, room_id, thread_key,
                                 [thread_state EXCEPT !.context_project = None,
                                                      !.context_branch = None])
                             rooms2 == PruneThread(rooms1, room_id, thread_key)
                         IN Result(WithRooms(S1, rooms2), None, TRUE)
               ELSE LET rooms1 == _ensure_thread_locked(rooms, room_id, thread_key)
                        rooms2 == StoreThread(rooms1, room_id, thread_key,
                                   [rooms1[room_id][thread_key]
                                        EXCEPT !.context_project = project,
                                               !.context_branch = branch])
                    IN Result(WithRooms(S1, rooms2), None, TRUE)

(* set_context that, given no project, clears the project and keeps the   *)
(* branch.                                                                 *)
set_context_KeepBranch(S, room_id, thread_root_event_id, context) ==
    LET thread_key == _normalize_text(thread_root_event_id)
        project == IF context # NoneObj THEN _normalize_text(context.project)
                   ELSE None
        branch == IF context # NoneObj THEN _normalize_text(context.branch)
                  ELSE None
    IN IF thread_key = None THEN Result(S, None, FALSE)
       ELSE LET S1 == _reload_locked_if_needed(S)
                rooms == S1.mem.rooms
                thread_state == LookupThread(rooms, room_id, thread_key)
            IN IF project = None
               THEN IF thread_state = NoneObj THEN Result(S1, None, FALSE)
                    ELSE LET rooms1 == StoreThread(rooms, room_id, thread_key,
                                 [thread_state EXCEPT !.context_project = None])
                             rooms2 == PruneThread(rooms1, room_id, thread_key)
                         IN Result(_save_locked(WithRooms(S1, rooms2)), None, TRUE)
               ELSE LET rooms1 == _ensure_thread_locked(rooms, room_id, thread_key)
                        rooms2 == StoreThread(rooms1, room_id, thread_key,
                                   [rooms1[room_id][thread_key]
                                        EXCEPT !.context_project = project,
                                               !.context_branch = branch])
                    IN Result(_save_locked(WithRooms(S1, rooms2)), None, TRUE)

set_context(S, room_id, thread_root_event_id, context) ==
    LET thread_key == _normalize_text(thread_root_event_id)
        project == IF context # NoneObj THEN _normalize_text(context.project)
                   ELSE None
        branch == IF context # NoneObj THEN _normalize_text(context.branch)
                  ELSE None
    IN IF thread_key = None THEN Result(S, None, FALSE)
       ELSE LET S1 == _reload_locked_if_needed(S)
                rooms == S1.mem.rooms
                thread_state == LookupThread(rooms, room_id, thread_key)
            IN IF project = None
               THEN IF thread_state = NoneObj THEN Result(S1, None, FALSE)
                    ELSE LET rooms1 == StoreThread(rooms, room_id, thread_key,
                                 [thread_state EXCEPT !.context_project = None,
                                                      !.context_branch = None])
                             rooms2 == PruneThread(rooms1, room_id, thread_key)
                         IN Result(_save_locked(WithRooms(S1, rooms2)), None, TRUE)
               ELSE LET rooms1 == _ensure_thread_locked(rooms, room_id, thread_key)
                        rooms2 == StoreThread(rooms1, room_id, thread_key,
                                   [rooms1[room_id][thread_key]
                                        EXCEPT !.context_project = project,
                                               !.context_branch = branch])
                    IN Result(_save_locked(WithRooms(S1, rooms2)), None, TRUE)

clear_context(S, room_id, thread_root_event_id) ==
    set_context(S, room_id, thread_root_event_id, NoneObj)

(* get_default_engine that creates the entry it looks up. *)
get_default_engine_Ensure(S, room_id, thread_root_event_id) ==
    LET thread_key == _normalize_text(thread_root_event_id)
    IN IF thread_key = None THEN Result(S, None, FALSE)
       ELSE LET S1 == _reload_locked_if_needed(S)
                rooms == _ensure_thread_locked(S1.mem.rooms, room_id, thread_key)
            IN Result(WithRooms(S1, rooms),
                      _normalize_text(rooms[room_id][thread_key].default_engine),
                      FALSE)

get_default_engine(S, room_id, thread_root_event_id) ==
    LET thread_key == _normalize_text(thread_root_event_id)
    IN IF thread_key = None THEN Result(S, None, FALSE)
       ELSE LET S1 == _reload_locked_if_needed(S)
                thread_state == LookupThread(S1.mem.rooms, room_id, thread_key)
            IN IF thread_state = NoneObj THEN Result(S1, None, FALSE)
               ELSE Result(S1, _normalize_text(thread_state.default_engine), FALSE)

(* set_default_engine without the branch that clears: an absent engine    *)
(* leaves the stored default in place.                                     *)
set_default_engine_NoClear(S, room_id, thread_root_event_id, engine) ==
    LET thread_key == _normalize_text(thread_root_event_id)
        normalized_engine == _normalize_text(engine)
    IN IF thread_key = None \/ normalized_engine = None
       THEN Result(S, None, FALSE)
       ELSE LET S1 == _reload_locked_if_needed(S)
                rooms1 == _ensure_thread_locked(S1.mem.rooms, room_id, thread_key)
                rooms2 == StoreThread(rooms1, room_id, thread_key,
                           [rooms1[room_id][thread_key]
                                EXCEPT !.default_engine = normalized_engine])
            IN Result(_save_locked(WithRooms(S1, rooms2)), None, TRUE)

(* set_default_engine that normalizes the engine as an engine id: trimmed *)
(* and lowercased.                                                        *)
set_default_engine_Lowered(S, room_id, thread_root_event_id, engine) ==
    LET thread_key == _normalize_text(thread_root_event_id)
        normalized_engine == _normalize_engine_id(engine)
    IN IF thread_key = None THEN Result(S, None, FALSE)
       ELSE LET S1 == _reload_locked_if_needed(S)
                rooms == S1.mem.rooms
                thread_state == LookupThread(rooms, room_id, thread_key)
            IN IF normalized_engine = None
               THEN IF thread_state = NoneObj THEN Result(S1, None, FALSE)
                    ELSE LET rooms1 == StoreThread(rooms, room_id, thread_key,
                                 [thread_state EXCEPT !.default_engine = None])
                             rooms2 == PruneThread(rooms1, room_id, thread_key)
                         IN Result(_save_locked(WithRooms(S1, rooms2)), None, TRUE)
               ELSE LET rooms1 == _ensure_thread_locked(rooms, room_id, thread_key)
                        rooms2 == StoreThread(rooms1, room_id, thread_key,
                                   [rooms1[room_id][thread_key]
                                        EXCEPT !.default_engine = normalized_engine])
                    IN Result(_save_locked(WithRooms(S1, rooms2)), None, TRUE)

set_default_engine(S, room_id, thread_root_event_id, engine) ==
    LET thread_key == _normalize_text(thread_root_event_id)
        normalized_engine == _normalize_text(engine)
    IN IF thread_key = None THEN Result(S, None, FALSE)
       ELSE LET S1 == _reload_locked_if_needed(S)
                rooms == S1.mem.rooms
                thread_state == LookupThread(rooms, room_id, thread_key)
            IN IF normalized_engine = None
               THEN IF thread_state = NoneObj THEN Result(S1, None, FALSE)
                    ELSE LET rooms1 == StoreThread(rooms, room_id, thread_key,
                                 [thread_state EXCEPT !.default_engine = None])
                             rooms2 == PruneThread(rooms1, room_id, thread_key)
                         IN Result(_save_locked(WithRooms(S1, rooms2)), None, TRUE)
               ELSE LET rooms1 == _ensure_thread_locked(rooms, room_id, thread_key)
                        rooms2 == StoreThread(rooms1, room_id, thread_key,
                                   [rooms1[room_id][thread_key]
                                        EXCEPT !.default_engine = normalized_engine])
                    IN Result(_save_locked(WithRooms(S1, rooms2)), None, TRUE)

clear_default_engine(S, room_id, thread_root_event_id) ==
    set_default_engine(S, room_id, thread_root_event_id, None)

mentions == <<"m","e","n","t","i","o","n","s">>

all == <<"a","l","l">>

(* get_trigger_mode that looks the mode up by room alone: the mode of any  *)
(* thread of the room answers for every thread of it.                      *)
get_trigger_mode_AnyThread(S, room_id, thread_root_event_id) ==
    LET thread_key == _normalize_text(thread_root_event_id)
    IN IF thread_key = None THEN Result(S, None, FALSE)
       ELSE LET S1 == _reload_locked_if_needed(S)
                rooms == S1.mem.rooms
            IN IF ~Has(rooms, room_id) THEN Result(S1, None, FALSE)
               ELSE IF \E th \in DOMAIN rooms[room_id] :
                           _normalize_text(rooms[room_id][th].trigger_mode)
                               = mentions
                    THEN Result(S1, mentions, FALSE)
                    ELSE Result(S1, None, FALSE)

get_trigger_mode(S, room_id, thread_root_event_id) ==
    LET thread_key == _normalize_text(thread_root_event_id)
    IN IF thread_key = None THEN Result(S, None, FALSE)
       ELSE LET S1 == _reload_locked_if_needed(S)
                thread_state == LookupThread(S1.mem.rooms, room_id, thread_key)
            IN IF thread_state = NoneObj THEN Result(S1, None, FALSE)
               ELSE LET mode == _normalize_text(thread_state.trigger_mode)
                    IN Result(S1, IF mode = AttributeError THEN AttributeError
                                  ELSE IF mode = mentions THEN mentions
                                  ELSE None,
                              FALSE)

(* set_trigger_mode that stores whatever non-empty text it is given. *)
set_trigger_mode_AnyText(S, room_id, thread_root_event_id, mode) ==
    LET thread_key == _normalize_text(thread_root_event_id)
        normalized_mode == _normalize_text(mode)
    IN IF thread_key = None THEN Result(S, None, FALSE)
       ELSE LET S1 == _reload_locked_if_needed(S)
                rooms == S1.mem.rooms
                thread_state == LookupThread(rooms, room_id, thread_key)
            IN IF normalized_mode = None
               THEN IF thread_state = NoneObj THEN Result(S1, None, FALSE)
                    ELSE LET rooms1 == StoreThread(rooms, room_id, thread_key,
                                 [thread_state EXCEPT !.trigger_mode = None])
                             rooms2 == PruneThread(rooms1, room_id, thread_key)
                         IN Result(_save_locked(WithRooms(S1, rooms2)), None, TRUE)
               ELSE LET rooms1 == _ensure_thread_locked(rooms, room_id, thread_key)
                        rooms2 == StoreThread(rooms1, room_id, thread_key,
                                   [rooms1[room_id][thread_key]
                                        EXCEPT !.trigger_mode = normalized_mode])
                    IN Result(_save_locked(WithRooms(S1, rooms2)), None, TRUE)

(* set_trigger_mode that stores the mode in a fresh entry for the thread. *)
set_trigger_mode_FreshEntry(S, room_id, thread_root_event_id, mode) ==
    LET thread_key == _normalize_text(thread_root_event_id)
        normalized_mode == IF _normalize_text(mode) # mentions THEN None
                           ELSE _normalize_text(mode)
    IN IF thread_key = None THEN Result(S, None, FALSE)
       ELSE LET S1 == _reload_locked_if_needed(S)
                rooms == S1.mem.rooms
                thread_state == LookupThread(rooms, room_id, thread_key)
            IN IF normalized_mode = None
               THEN IF thread_state = NoneObj THEN Result(S1, None, FALSE)
                    ELSE LET rooms1 == StoreThread(rooms, room_id, thread_key,
                                 [thread_state EXCEPT !.trigger_mode = None])
                             rooms2 == PruneThread(rooms1, room_id, thread_key)
                         IN Result(_save_locked(WithRooms(S1, rooms2)), None, TRUE)
               ELSE LET rooms1 == _ensure_thread_locked(rooms, room_id, thread_key)
                        rooms2 == StoreThread(rooms1, room_id, thread_key,
                                   [_new_thread_entry
                                        EXCEPT !.trigger_mode = normalized_mode])
                    IN Result(_save_locked(WithRooms(S1, rooms2)), None, TRUE)

set_trigger_mode(S, room_id, thread_root_event_id, mode) ==
    LET thread_key == _normalize_text(thread_root_event_id)
        normalized_mode == IF _normalize_text(mode) # mentions THEN None
                           ELSE _normalize_text(mode)
    IN IF thread_key = None THEN Result(S, None, FALSE)
       ELSE LET S1 == _reload_locked_if_needed(S)
                rooms == S1.mem.rooms
                thread_state == LookupThread(rooms, room_id, thread_key)
            IN IF normalized_mode = None
               THEN IF thread_state = NoneObj THEN Result(S1, None, FALSE)
                    ELSE LET rooms1 == StoreThread(rooms, room_id, thread_key,
                                 [thread_state EXCEPT !.trigger_mode = None])
                             rooms2 == PruneThread(rooms1, room_id, thread_key)
                         IN Result(_save_locked(WithRooms(S1, rooms2)), None, TRUE)
               ELSE LET rooms1 == _ensure_thread_locked(rooms, room_id, thread_key)
                        rooms2 == StoreThread(rooms1, room_id, thread_key,
                                   [rooms1[room_id][thread_key]
                                        EXCEPT !.trigger_mode = normalized_mode])
                    IN Result(_save_locked(WithRooms(S1, rooms2)), None, TRUE)

clear_trigger_mode(S, room_id, thread_root_event_id) ==
    set_trigger_mode(S, room_id, thread_root_event_id, None)

(* engine_overrides.normalize_overrides: each field trimmed, an empty      *)
(* field absent, an override with both fields absent is None.              *)
normalize_overrides(override) ==
    IF override = NoneObj THEN NoneObj
    ELSE LET model == _normalize_text(override.model)
             reasoning == _normalize_text(override.reasoning)
         IN IF model = None /\ reasoning = None THEN NoneObj
            ELSE EngineOverrides(model, reasoning)

(* get_engine_override that fetches the entry the way the setters do, and  *)
(* so creates and saves it when it is missing.                             *)
get_engine_override_Ensure(S, room_id, thread_root_event_id, engine) ==
    LET thread_key == _normalize_text(thread_root_event_id)
        engine_key == _normalize_engine_id(engine)
    IN IF thread_key = None \/ engine_key = None THEN Result(S, NoneObj, FALSE)
       ELSE LET S1 == _reload_locked_if_needed(S)
                rooms == _ensure_thread_locked(S1.mem.rooms, room_id, thread_key)
                thread_state == rooms[room_id][thread_key]
                S2 == IF rooms = S1.mem.rooms THEN S1
                      ELSE _save_locked(WithRooms(S1, rooms))
            IN IF ~Has(thread_state.engine_overrides, engine_key)
               THEN Result(S2, NoneObj, S2 # S1)
               ELSE Result(S2,
                           normalize_overrides(
                               thread_state.engine_overrides[engine_key]),
                           S2 # S1)

(* get_engine_override that looks the override up under the engine id as  *)
(* given, trimmed but not lowercased.                                     *)
get_engine_override_KeyAsGiven(S, room_id, thread_root_event_id, engine) ==
    LET thread_key == _normalize_text(thread_root_event_id)
        engine_key == _normalize_text(engine)
    IN IF thread_key = None \/ engine_key = None THEN Result(S, NoneObj, FALSE)
       ELSE LET S1 == _reload_locked_if_needed(S)
                thread_state == LookupThread(S1.mem.rooms, room_id, thread_key)
            IN IF thread_state = NoneObj THEN Result(S1, NoneObj, FALSE)
               ELSE IF ~Has(thread_state.engine_overrides, engine_key)
                    THEN Result(S1, NoneObj, FALSE)
                    ELSE LET value == thread_state.engine_overrides[engine_key]
                         IN Result(S1,
                                   normalize_overrides(
                                       EngineOverrides(value.model,
                                                       value.reasoning)),
                                   FALSE)

get_engine_override(S, room_id, thread_root_event_id, engine) ==
    LET thread_key == _normalize_text(thread_root_event_id)
        engine_key == _normalize_engine_id(engine)
    IN IF thread_key = None \/ engine_key = None THEN Result(S, NoneObj, FALSE)
       ELSE LET S1 == _reload_locked_if_needed(S)
                thread_state == LookupThread(S1.mem.rooms, room_id, thread_key)
            IN IF thread_state = NoneObj THEN Result(S1, NoneObj, FALSE)
               ELSE IF ~IsDict(thread_state.engine_overrides)
                       \/ ~Has(thread_state.engine_overrides, engine_key)
                    THEN Result(S1, NoneObj, FALSE)
                    ELSE LET value == thread_state.engine_overrides[engine_key]
                         IN IF ~IsDictValue(value) THEN Result(S1, NoneObj, FALSE)
                            ELSE Result(S1,
                                        normalize_overrides(
                                            EngineOverrides(
                                                IF IsStr(value.model)
                                                THEN value.model ELSE None,
                                                IF IsStr(value.reasoning)
                                                THEN value.reasoning ELSE None)),
                                        FALSE)

(* set_engine_override that stores an override with neither field. *)
set_engine_override_StoreEmpty(S, room_id, thread_root_event_id, engine, override) ==
    LET thread_key == _normalize_text(thread_root_event_id)
        engine_key == _normalize_engine_id(engine)
    IN IF thread_key = None \/ engine_key = None THEN Result(S, None, FALSE)
       ELSE LET S1 == _reload_locked_if_needed(S)
                rooms1 == _ensure_thread_locked(S1.mem.rooms, room_id, thread_key)
                rooms2 == StoreThread(rooms1, room_id, thread_key,
                           [rooms1[room_id][thread_key]
                                EXCEPT !.engine_overrides =
                                    DictSet(@, engine_key,
                                        IF override = NoneObj
                                        THEN [model |-> None, reasoning |-> None]
                                        ELSE [model |-> _normalize_text(override.model),
                                              reasoning |->
                                                  _normalize_text(override.reasoning)])])
            IN Result(_save_locked(WithRooms(S1, rooms2)), None, TRUE)

set_engine_override(S, room_id, thread_root_event_id, engine, override) ==
    LET thread_key == _normalize_text(thread_root_event_id)
        engine_key == _normalize_engine_id(engine)
        normalized_override == normalize_overrides(override)
    IN IF thread_key = None \/ engine_key = None THEN Result(S, None, FALSE)
       ELSE LET S1 == _reload_locked_if_needed(S)
                rooms == S1.mem.rooms
                thread_state == LookupThread(rooms, room_id, thread_key)
            IN IF normalized_override = NoneObj
               THEN IF thread_state = NoneObj THEN Result(S1, None, FALSE)
                    ELSE LET rooms1 == StoreThread(rooms, room_id, thread_key,
                                 [thread_state EXCEPT !.engine_overrides =
                                      DictPop(@, engine_key)])
                             rooms2 == PruneThread(rooms1, room_id, thread_key)
                         IN Result(_save_locked(WithRooms(S1, rooms2)), None, TRUE)
               ELSE LET rooms1 == _ensure_thread_locked(rooms, room_id, thread_key)
                        rooms2 == StoreThread(rooms1, room_id, thread_key,
                                   [rooms1[room_id][thread_key]
                                        EXCEPT !.engine_overrides =
                                            DictSet(@, engine_key,
                                                [model |-> normalized_override.model,
                                                 reasoning |-> normalized_override.reasoning])])
                    IN Result(_save_locked(WithRooms(S1, rooms2)), None, TRUE)

clear_engine_override(S, room_id, thread_root_event_id, engine) ==
    set_engine_override(S, room_id, thread_root_event_id, engine, NoneObj)

----------------------------------------------------------------------------
(* Per-room preference store (RoomPrefsStore, room_prefs.py) *)

ROOM_STATE_VERSION == 2

_new_room_state == Document(ROOM_STATE_VERSION, EmptyDict)

_new_room_entry ==
    [default_engine |-> None,
     trigger_mode |-> None,
     context_project |-> None,
     context_branch |-> None,
     engine_overrides |-> EmptyDict]

_normalize_trigger_mode(value) ==
    IF value = None THEN None
    ELSE IF Lower(Strip(value)) = mentions THEN mentions ELSE None

_room_is_empty(entry) ==
    /\ _normalize_text(entry.default_engine) = None
    /\ _normalize_trigger_mode(entry.trigger_mode) = None
    /\ _normalize_text(entry.context_project) = None
    /\ _normalize_text(entry.context_branch) = None
    /\ entry.engine_overrides = EmptyDict

room_reload(S) ==
    IF S.disk = S.loaded THEN S
    ELSE [S EXCEPT !.mem = IF S.disk = NoFile THEN _new_room_state ELSE S.disk,
                   !.loaded = S.disk]

(* One mutating transaction on a room (transact): the entry is created     *)
(* only by a change that sets something, an entry left empty is removed,   *)
(* and the file is written only when the document changed.                 *)
room_update(S, room_id, entry_after(_)) ==
    LET S1 == room_reload(S)
        rooms == S1.mem.rooms
        entry == IF Has(rooms, room_id) THEN rooms[room_id]
                 ELSE _new_room_entry
        after == entry_after(entry)
        rooms2 == IF _room_is_empty(after) THEN DictPop(rooms, room_id)
                  ELSE DictSet(rooms, room_id, after)
    IN IF rooms2 = rooms THEN Result(S1, None, FALSE)
       ELSE Result(_save_locked(WithRooms(S1, rooms2)), None, TRUE)

room_get_default_engine(S, room_id) ==
    LET S1 == room_reload(S)
    IN IF ~Has(S1.mem.rooms, room_id) THEN Result(S1, None, FALSE)
       ELSE Result(S1, _normalize_text(S1.mem.rooms[room_id].default_engine),
                   FALSE)

room_set_default_engine(S, room_id, engine) ==
    LET normalized == _normalize_text(engine)
        after(entry) == [entry EXCEPT !.default_engine = normalized]
    IN room_update(S, room_id, after)

room_clear_default_engine(S, room_id) ==
    room_set_default_engine(S, room_id, None)

room_get_trigger_mode(S, room_id) ==
    LET S1 == room_reload(S)
    IN IF ~Has(S1.mem.rooms, room_id) THEN Result(S1, None, FALSE)
       ELSE Result(S1,
                   _normalize_trigger_mode(S1.mem.rooms[room_id].trigger_mode),
                   FALSE)

room_set_trigger_mode(S, room_id, mode) ==
    LET normalized == _normalize_trigger_mode(mode)
        after(entry) == [entry EXCEPT !.trigger_mode = normalized]
    IN room_update(S, room_id, after)

room_clear_trigger_mode(S, room_id) ==
    room_set_trigger_mode(S, room_id, None)

room_get_context(S, room_id) ==
    LET S1 == room_reload(S)
    IN IF ~Has(S1.mem.rooms, room_id) THEN Result(S1, NoneObj, FALSE)
       ELSE LET project == _normalize_text(S1.mem.rooms[room_id].context_project)
                branch == _normalize_text(S1.mem.rooms[room_id].context_branch)
            IN IF project = None THEN Result(S1, NoneObj, FALSE)
               ELSE Result(S1, RunContext(project, branch), FALSE)

room_set_context(S, room_id, context) ==
    LET project == IF context # NoneObj THEN _normalize_text(context.project)
                   ELSE None
        branch == IF context # NoneObj /\ project # None
                  THEN _normalize_text(context.branch) ELSE None
        after(entry) == [entry EXCEPT !.context_project = project,
                                      !.context_branch = branch]
    IN room_update(S, room_id, after)

room_clear_context(S, room_id) ==
    room_set_context(S, room_id, NoneObj)

room_get_engine_override(S, room_id, engine) ==
    LET engine_key == _normalize_engine_id(engine)
    IN IF engine_key = None THEN Result(S, NoneObj, FALSE)
       ELSE LET S1 == room_reload(S)
            IN IF ~Has(S1.mem.rooms, room_id) THEN Result(S1, NoneObj, FALSE)
               ELSE IF ~Has(S1.mem.rooms[room_id].engine_overrides, engine_key)
                    THEN Result(S1, NoneObj, FALSE)
                    ELSE Result(S1,
                                normalize_overrides(
                                    S1.mem.rooms[room_id].engine_overrides[engine_key]),
                                FALSE)

room_set_engine_override(S, room_id, engine, override) ==
    LET engine_key == _normalize_engine_id(engine)
        normalized == normalize_overrides(override)
        after(entry) ==
            [entry EXCEPT !.engine_overrides =
                 IF normalized = NoneObj THEN DictPop(@, engine_key)
                 ELSE DictSet(@, engine_key, normalized)]
    IN IF engine_key = None THEN Result(S, None, FALSE)
       ELSE room_update(S, room_id, after)

room_clear_engine_override(S, room_id, engine) ==
    room_set_engine_override(S, room_id, engine, NoneObj)

----------------------------------------------------------------------------
(* Collaborators: the runtime's engine registry and defaults *)

codex == <<"c","o","d","e","x">>

claude == <<"c","l","a","u","d","e">>

(* runtime.engine_ids *)
engine_ids == <<codex, claude>>

EngineIdSet == {engine_ids[i] : i \in 1..Len(engine_ids)}

(* runtime.default_engine *)
default_engine == codex

app == <<"a","p","p">>

website == <<"w","e","b","s","i","t","e">>

(* runtime.project_default_engine(context): the project "app" has a       *)
(* default engine, the project "website" has none.                         *)
project_default_engine(context) ==
    IF context = NoneObj THEN None
    ELSE IF context.project = app THEN claude ELSE None

----------------------------------------------------------------------------
(* Precedence resolution (engine_defaults.py, engine_overrides.py,         *)
(* trigger_mode.py).  A resolution reads the stores; it yields the stores  *)
(* after the reads together with the resolved value.                       *)

Resolved(TS, RS, ret) == [ts |-> TS, rs |-> RS, ret |-> ret]

EngineResolution(engine, source, thread_default, room_default, project_default) ==
    [engine |-> engine, source |-> source, thread_default |-> thread_default,
     room_default |-> room_default, project_default |-> project_default]

resolve_engine_for_message(TS, RS, c, context, explicit_engine, room_id, thread_root_event_id) ==
    LET Select(t, r, project_default) ==
            Resolved(t.store, r.store,
                     EngineResolution(
                         IF explicit_engine # None THEN explicit_engine
                         ELSE IF t.ret # None THEN t.ret
                         ELSE IF r.ret # None THEN r.ret
                         ELSE IF project_default # None THEN project_default
                         ELSE default_engine,
                         IF explicit_engine # None THEN "directive"
                         ELSE IF t.ret # None THEN "thread_default"
                         ELSE IF r.ret # None THEN "room_default"
                         ELSE IF project_default # None THEN "project_default"
                         ELSE "global_default",
                         t.ret, r.ret, project_default))
    IN Select(IF c.thread_state /\ thread_root_event_id # None
              THEN get_default_engine(TS, room_id, thread_root_event_id)
              ELSE Result(TS, None, FALSE),
              IF c.room_prefs THEN room_get_default_engine(RS, room_id)
              ELSE Result(RS, None, FALSE),
              project_default_engine(context))

OverrideField(override, field) ==
    IF override = NoneObj THEN None
    ELSE IF field = "model" THEN _normalize_text(override.model)
    ELSE _normalize_text(override.reasoning)

resolve_override_value(thread_override, room_override, field) ==
    LET Pick(thread_value, room_value) ==
            [value |-> IF thread_value # None THEN thread_value ELSE room_value,
             source |-> IF thread_value # None THEN "thread_override"
                        ELSE IF room_value # None THEN "room_default"
                        ELSE "default",
             thread_value |-> thread_value,
             room_value |-> room_value]
    IN Pick(OverrideField(thread_override, field),
            OverrideField(room_override, field))

resolve_trigger_mode(TS, RS, c, room_id, thread_root_event_id) ==
    LET Pick(t, r) ==
            Resolved(t.store, r.store,
                     IF t.ret = mentions THEN mentions
                     ELSE IF r.ret = mentions THEN mentions
                     ELSE all)
    IN Pick(IF c.thread_state /\ thread_root_event_id # None
            THEN get_trigger_mode(TS, room_id, thread_root_event_id)
            ELSE Result(TS, None, FALSE),
            IF c.room_prefs THEN room_get_trigger_mode(RS, room_id)
            ELSE Result(RS, None, FALSE))

----------------------------------------------------------------------------
(* Built-in commands (bridge/commands/builtin.py).  A handler receives the *)
(* stores, the configuration c (which stores exist), the message, the      *)
(* tokens of split_command_args(args_text) and the ambient context; it     *)
(* yields the stores afterwards, the reply sent, the mutating store calls  *)
(* it made and whether any of them wrote a file.                           *)

tok_show == <<"s","h","o","w">>

tok_set == <<"s","e","t">>

tok_clear == <<"c","l","e","a","r">>

none_text == <<"n","o","n","e">>

default_text == <<"d","e","f","a","u","l","t">>

ENGINE_SOURCE_LABELS ==
    [directive |-> "directive",
     thread_default |-> "thread default",
     room_default |-> "room default",
     project_default |-> "project default",
     global_default |-> "global default"]

OVERRIDE_SOURCE_LABELS ==
    [thread_override |-> "thread override",
     room_default |-> "room default",
     default |-> "default"]

Reply(text, args) == [text |-> text, args |-> args]

Handled(TS, RS, reply, calls, wrote) ==
    [ts |-> TS, rs |-> RS, reply |-> reply, calls |-> calls, wrote |-> wrote]

(* Python's "value or alternative" for an optional string. *)
OrElse(value, alternative) ==
    IF value = None \/ value = <<>> THEN alternative ELSE value

(* _thread_scope that does not look at the thread root of the message. *)
_thread_scope_Never(msg, c) == None

_thread_scope(msg, c) ==
    IF msg.thread_root_event_id = None THEN None
    ELSE IF ~c.thread_state THEN None
    ELSE msg.thread_root_event_id

(* _resolve_engine_selection that leaves the thread root out of the call. *)
_resolve_engine_selection_NoThread(TS, RS, c, msg, ambient_context) ==
    resolve_engine_for_message(TS, RS, c, ambient_context, None, msg.room_id,
                               None)

_resolve_engine_selection(TS, RS, c, msg, ambient_context) ==
    resolve_engine_for_message(TS, RS, c, ambient_context, None, msg.room_id,
                               msg.thread_root_event_id)

(* _read_overrides_for_engine that returns the pair in the other order. *)
_read_overrides_for_engine_Swapped(TS, RS, c, msg, engine) ==
    LET thread_root == _thread_scope(msg, c)
        Both(t, r) == Resolved(t.store, r.store, <<r.ret, t.ret>>)
    IN Both(IF thread_root # None
            THEN get_engine_override(TS, msg.room_id, thread_root, engine)
            ELSE Result(TS, NoneObj, FALSE),
            IF c.room_prefs
            THEN room_get_engine_override(RS, msg.room_id, engine)
            ELSE Result(RS, NoneObj, FALSE))

(* _read_overrides_for_engine that reads the room override only when the   *)
(* thread has none: the scopes fall through as wholes, not field by field. *)
_read_overrides_for_engine_WholeScope(TS, RS, c, msg, engine) ==
    LET thread_root == _thread_scope(msg, c)
        Both(t, r) == Resolved(t.store, r.store,
                               <<t.ret, IF t.ret # NoneObj THEN NoneObj
                                        ELSE r.ret>>)
    IN Both(IF thread_root # None
            THEN get_engine_override(TS, msg.room_id, thread_root, engine)
            ELSE Result(TS, NoneObj, FALSE),
            IF c.room_prefs
            THEN room_get_engine_override(RS, msg.room_id, engine)
            ELSE Result(RS, NoneObj, FALSE))

_read_overrides_for_engine(TS, RS, c, msg, engine) ==
    LET thread_root == _thread_scope(msg, c)
        Both(t, r) == Resolved(t.store, r.store, <<t.ret, r.ret>>)
    IN Both(IF thread_root # None
            THEN get_engine_override(TS, msg.room_id, thread_root, engine)
            ELSE Result(TS, NoneObj, FALSE),
            IF c.room_prefs
            THEN room_get_engine_override(RS, msg.room_id, engine)
            ELSE Result(RS, NoneObj, FALSE))

(* The update callbacks the handlers pass: each sets one field of the      *)
(* current override to a value and keeps the other field.                  *)
OverrideUpdate(field, value) == [field |-> field, value |-> value]

(* update(current) that builds the override from the new value alone. *)
CallUpdate_Replace(update, current) ==
    IF update.field = "model"
    THEN EngineOverrides(update.value, None)
    ELSE EngineOverrides(None, update.value)

(* update(current) *)
CallUpdate(update, current) ==
    IF update.field = "model"
    THEN EngineOverrides(update.value,
                         IF current # NoneObj THEN current.reasoning ELSE None)
    ELSE EngineOverrides(IF current # NoneObj THEN current.model ELSE None,
                         update.value)

_apply_override_update(TS, RS, c, msg, engine, update) ==
    LET thread_root == _thread_scope(msg, c)
        ThreadSet(r) ==
            Handled(r.store, RS, "thread",
                    <<"thread_state.set_engine_override">>, r.wrote)
        ThreadUpdate(current) ==
            ThreadSet(set_engine_override(current.store, msg.room_id,
                                          thread_root, engine,
                                          CallUpdate(update, current.ret)))
        RoomSet(r) ==
            Handled(TS, r.store, "room",
                    <<"room_prefs.set_engine_override">>, r.wrote)
        RoomUpdate(current) ==
            RoomSet(room_set_engine_override(current.store, msg.room_id,
                                             engine,
                                             CallUpdate(update, current.ret)))
    IN IF thread_root # None
       THEN ThreadUpdate(get_engine_override(TS, msg.room_id, thread_root,
                                             engine))
       ELSE IF ~c.room_prefs THEN Handled(TS, RS, "none", <<>>, FALSE)
       ELSE RoomUpdate(room_get_engine_override(RS, msg.room_id, engine))

(* _handle_new_command that goes on to the sender's chat sessions after    *)
(* clearing the thread's.                                                  *)
_handle_new_command_Both(TS, RS, c, msg) ==
    LET thread_root == _thread_scope(msg, c)
        r == IF thread_root # None
             THEN clear_sessions(TS, msg.room_id, thread_root)
             ELSE Result(TS, None, FALSE)
        thread_calls == IF thread_root # None
                        THEN <<"thread_state.clear_sessions">> ELSE <<>>
    IN IF ~c.chat_sessions
       THEN Handled(r.store, RS,
                    Reply("no stored sessions to clear for this room.", NoneObj),
                    thread_calls, r.wrote)
       ELSE Handled(r.store, RS,
                    Reply("cleared stored sessions for you in this room.", NoneObj),
                    thread_calls \o <<"chat_sessions.clear_sessions">>, r.wrote)

_handle_new_command(TS, RS, c, msg) ==
    LET thread_root == _thread_scope(msg, c)
    IN IF thread_root # None
       THEN LET r == clear_sessions(TS, msg.room_id, thread_root)
            IN Handled(r.store, RS,
                       Reply("cleared stored sessions for this thread.", NoneObj),
                       <<"thread_state.clear_sessions">>, r.wrote)
       ELSE IF ~c.chat_sessions
       THEN Handled(TS, RS,
                    Reply("no stored sessions to clear for this room.", NoneObj),
                    <<>>, FALSE)
       ELSE Handled(TS, RS,
                    Reply("cleared stored sessions for you in this room.", NoneObj),
                    <<"chat_sessions.clear_sessions">>, FALSE)

(* _handle_agent_command that accepts every non-empty engine name. *)
_handle_agent_command_AnyEngine(TS, RS, c, msg, tokens, ambient_context) ==
    LET action == IF tokens # <<>> THEN Lower(tokens[1]) ELSE tok_show
        room_id == msg.room_id
        thread_root == _thread_scope(msg, c)
    IN IF action \in {tok_show, <<>>}
       THEN LET sel == _resolve_engine_selection(TS, RS, c, msg, ambient_context)
            IN Handled(sel.ts, sel.rs,
                       Reply("engine",
                             [engine |-> sel.ret.engine,
                              source |-> ENGINE_SOURCE_LABELS[sel.ret.source],
                              thread_default |->
                                  OrElse(sel.ret.thread_default, none_text),
                              room_default |->
                                  OrElse(sel.ret.room_default, none_text),
                              project_default |->
                                  OrElse(sel.ret.project_default, none_text),
                              global_default |-> default_engine]),
                       <<>>, FALSE)
       ELSE IF action = tok_set
       THEN IF Len(tokens) < 2
            THEN Handled(TS, RS, Reply("AGENT_USAGE", NoneObj), <<>>, FALSE)
            ELSE LET engine == Lower(Strip(tokens[2]))
                 IN IF engine = <<>>
                    THEN Handled(TS, RS, Reply("unknown engine", [engine |-> engine]),
                                 <<>>, FALSE)
                    ELSE IF thread_root # None
                    THEN LET r == set_default_engine(TS, room_id, thread_root,
                                                     engine)
                         IN Handled(r.store, RS,
                                    Reply("thread default engine set to",
                                          [engine |-> engine]),
                                    <<"thread_state.set_default_engine">>,
                                    r.wrote)
                    ELSE IF ~c.room_prefs
                    THEN Handled(TS, RS,
                                 Reply("room defaults store unavailable.", NoneObj),
                                 <<>>, FALSE)
                    ELSE LET r == room_set_default_engine(RS, room_id, engine)
                         IN Handled(TS, r.store,
                                    Reply("room default engine set to",
                                          [engine |-> engine]),
                                    <<"room_prefs.set_default_engine">>,
                                    r.wrote)
       ELSE IF action = tok_clear
       THEN IF thread_root # None
            THEN LET r == clear_default_engine(TS, room_id, thread_root)
                 IN Handled(r.store, RS,
                            Reply("thread default engine cleared.", NoneObj),
                            <<"thread_state.clear_default_engine">>, r.wrote)
            ELSE IF ~c.room_prefs
            THEN Handled(TS, RS,
                         Reply("room defaults store unavailable.", NoneObj),
                         <<>>, FALSE)
            ELSE LET r == room_clear_default_engine(RS, room_id)
                 IN Handled(TS, r.store,
                            Reply("room default engine cleared.", NoneObj),
                            <<"room_prefs.clear_default_engine">>, r.wrote)
       ELSE Handled(TS, RS, Reply("AGENT_USAGE", NoneObj), <<>>, FALSE)

_handle_agent_command(TS, RS, c, msg, tokens, ambient_context) ==
    LET action == IF tokens # <<>> THEN Lower(tokens[1]) ELSE tok_show
        room_id == msg.room_id
        thread_root == _thread_scope(msg, c)
    IN IF action \in {tok_show, <<>>}
       THEN LET sel == _resolve_engine_selection(TS, RS, c, msg, ambient_context)
            IN Handled(sel.ts, sel.rs,
                       Reply("engine",
                             [engine |-> sel.ret.engine,
                              source |-> ENGINE_SOURCE_LABELS[sel.ret.source],
                              thread_default |->
                                  OrElse(sel.ret.thread_default, none_text),
                              room_default |->
                                  OrElse(sel.ret.room_default, none_text),
                              project_default |->
                                  OrElse(sel.ret.project_default, none_text),
                              global_default |-> default_engine]),
                       <<>>, FALSE)
       ELSE IF action = tok_set
       THEN IF Len(tokens) < 2
            THEN Handled(TS, RS, Reply("AGENT_USAGE", NoneObj), <<>>, FALSE)
            ELSE LET engine == Lower(Strip(tokens[2]))
                 IN IF engine \notin EngineIdSet
                    THEN Handled(TS, RS, Reply("unknown engine", [engine |-> engine]),
                                 <<>>, FALSE)
                    ELSE IF thread_root # None
                    THEN LET r == set_default_engine(TS, room_id, thread_root,
                                                     engine)
                         IN Handled(r.store, RS,
                                    Reply("thread default engine set to",
                                          [engine |-> engine]),
                                    <<"thread_state.set_default_engine">>,
                                    r.wrote)
                    ELSE IF ~c.room_prefs
                    THEN Handled(TS, RS,
                                 Reply("room defaults store unavailable.", NoneObj),
                                 <<>>, FALSE)
                    ELSE LET r == room_set_default_engine(RS, room_id, engine)
                         IN Handled(TS, r.store,
                                    Reply("room default engine set to",
                                          [engine |-> engine]),
                                    <<"room_prefs.set_default_engine">>,
                                    r.wrote)
       ELSE IF action = tok_clear
       THEN IF thread_root # None
            THEN LET r == clear_default_engine(TS, room_id, thread_root)
                 IN Handled(r.store, RS,
                            Reply("thread default engine cleared.", NoneObj),
                            <<"thread_state.clear_default_engine">>, r.wrote)
            ELSE IF ~c.room_prefs
            THEN Handled(TS, RS,
                         Reply("room defaults store unavailable.", NoneObj),
                         <<>>, FALSE)
            ELSE LET r == room_clear_default_engine(RS, room_id)
                 IN Handled(TS, r.store,
                            Reply("room default engine cleared.", NoneObj),
                            <<"room_prefs.clear_default_engine">>, r.wrote)
       ELSE Handled(TS, RS, Reply("AGENT_USAGE", NoneObj), <<>>, FALSE)

_handle_trigger_command(TS, RS, c, msg, tokens) ==
    LET action == IF tokens # <<>> THEN Lower(tokens[1]) ELSE tok_show
        room_id == msg.room_id
        thread_root == _thread_scope(msg, c)
    IN IF action \in {tok_show, <<>>}
       THEN LET resolved == resolve_trigger_mode(TS, RS, c, room_id,
                                                 msg.thread_root_event_id)
                t == IF thread_root # None
                     THEN get_trigger_mode(resolved.ts, room_id, thread_root)
                     ELSE Result(resolved.ts, None, FALSE)
                r == IF c.room_prefs
                     THEN room_get_trigger_mode(resolved.rs, room_id)
                     ELSE Result(resolved.rs, None, FALSE)
                source == IF t.ret # None THEN "thread override"
                          ELSE IF r.ret # None THEN "room default"
                          ELSE "default"
            IN Handled(t.store, r.store,
                       Reply("trigger",
                             [mode |-> resolved.ret, source |-> source,
                              thread_mode |-> OrElse(t.ret, none_text),
                              room_mode |-> OrElse(r.ret, none_text)]),
                       <<>>, FALSE)
       ELSE IF action \in {all, mentions}
       THEN LET mode == IF action = mentions THEN action ELSE None
            IN IF thread_root # None
               THEN LET r == set_trigger_mode(TS, room_id, thread_root, mode)
                    IN Handled(r.store, RS,
                               Reply("thread trigger mode set to", [mode |-> action]),
                               <<"thread_state.set_trigger_mode">>, r.wrote)
               ELSE IF ~c.room_prefs
               THEN Handled(TS, RS,
                            Reply("room trigger settings unavailable.", NoneObj),
                            <<>>, FALSE)
               ELSE LET r == room_set_trigger_mode(RS, room_id, mode)
                    IN Handled(TS, r.store,
                               Reply("room trigger mode set to", [mode |-> action]),
                               <<"room_prefs.set_trigger_mode">>, r.wrote)
       ELSE IF action = tok_clear
       THEN IF thread_root # None
            THEN LET r == clear_trigger_mode(TS, room_id, thread_root)
                 IN Handled(r.store, RS,
                            Reply("thread trigger mode cleared (using room default).",
                                  NoneObj),
                            <<"thread_state.clear_trigger_mode">>, r.wrote)
            ELSE IF ~c.room_prefs
            THEN Handled(TS, RS,
                         Reply("room trigger settings unavailable.", NoneObj),
                         <<>>, FALSE)
            ELSE LET r == room_clear_trigger_mode(RS, room_id)
                 IN Handled(TS, r.store,
                            Reply("room trigger mode reset to all.", NoneObj),
                            <<"room_prefs.clear_trigger_mode">>, r.wrote)
       ELSE Handled(TS, RS, Reply("TRIGGER_USAGE", NoneObj), <<>>, FALSE)

OverrideSetArgs(engine, value) == [engine |-> engine, value |-> value]

(* tokens include the "set" action at index 0 (here: position 1). *)
_parse_override_set_args(tokens, ids) ==
    IF Len(tokens) = 2 THEN OverrideSetArgs(None, tokens[2])
    ELSE IF Len(tokens) = 3 /\ Lower(Strip(tokens[2])) \in ids
    THEN OverrideSetArgs(Lower(Strip(tokens[2])), tokens[3])
    ELSE OverrideSetArgs(None, None)

(* engine_overrides.supports_reasoning / allowed_reasoning_levels *)
supports_reasoning(engine) == engine = codex

low == <<"l","o","w">>

high == <<"h","i","g","h">>

allowed_reasoning_levels == {low, high}

(* The show, set and clear forms shared by /model and /reasoning; field is *)
(* "model" or "reasoning".                                                 *)
OverrideShow(TS, RS, c, msg, ambient_context, field) ==
    LET Show(sel, ov, resolution) ==
            Handled(ov.ts, ov.rs,
                    Reply(field,
                          [engine |-> sel.ret.engine,
                           engine_source |-> ENGINE_SOURCE_LABELS[sel.ret.source],
                           value |-> OrElse(resolution.value, default_text),
                           source |-> OVERRIDE_SOURCE_LABELS[resolution.source],
                           thread_value |->
                               OrElse(resolution.thread_value, none_text),
                           room_value |->
                               OrElse(resolution.room_value, none_text)]),
                    <<>>, FALSE)
        Read(sel, ov) ==
            Show(sel, ov, resolve_override_value(ov.ret[1], ov.ret[2], field))
        Selected(sel) ==
            Read(sel, _read_overrides_for_engine(sel.ts, sel.rs, c, msg,
                                                 sel.ret.engine))
    IN Selected(_resolve_engine_selection(TS, RS, c, msg, ambient_context))

(* The engine a set or clear form works on: the one named in the command,  *)
(* else the one engine selection resolves.                                 *)
EngineFor(TS, RS, c, msg, ambient_context, named) ==
    IF named = None
    THEN _resolve_engine_selection(TS, RS, c, msg, ambient_context)
    ELSE Resolved(TS, RS, [engine |-> named])

(* The reply after _apply_override_update returned scope u.reply. *)
OverrideReply(u, text, value, engine) ==
    IF u.reply = "none"
    THEN Handled(u.ts, u.rs, Reply("override store unavailable.", NoneObj),
                 u.calls, u.wrote)
    ELSE Handled(u.ts, u.rs,
                 Reply(text, [scope |-> u.reply, value |-> value,
                              engine |-> engine]),
                 u.calls, u.wrote)

_handle_model_command(TS, RS, c, msg, tokens, ambient_context) ==
    LET action == IF tokens # <<>> THEN Lower(tokens[1]) ELSE tok_show
        ids == {Lower(e) : e \in EngineIdSet}
        parsed == _parse_override_set_args(tokens, ids)
        Set(sel) ==
            OverrideReply(
                _apply_override_update(sel.ts, sel.rs, c, msg, sel.ret.engine,
                                       OverrideUpdate("model", parsed.value)),
                "model override set", parsed.value, sel.ret.engine)
        Clear(sel) ==
            IF sel.ret.engine \notin ids
            THEN Handled(sel.ts, sel.rs,
                         Reply("unknown engine", [engine |-> sel.ret.engine]),
                         <<>>, FALSE)
            ELSE OverrideReply(
                     _apply_override_update(sel.ts, sel.rs, c, msg,
                                            sel.ret.engine,
                                            OverrideUpdate("model", None)),
                     "model override cleared.", None, sel.ret.engine)
    IN IF action \in {tok_show, <<>>}
       THEN OverrideShow(TS, RS, c, msg, ambient_context, "model")
       ELSE IF action = tok_set
       THEN IF parsed.value = None
            THEN Handled(TS, RS, Reply("MODEL_USAGE", NoneObj), <<>>, FALSE)
            ELSE Set(EngineFor(TS, RS, c, msg, ambient_context, parsed.engine))
       ELSE IF action = tok_clear
       THEN IF Len(tokens) > 2
            THEN Handled(TS, RS, Reply("MODEL_USAGE", NoneObj), <<>>, FALSE)
            ELSE Clear(EngineFor(TS, RS, c, msg, ambient_context,
                                 IF Len(tokens) = 2
                                 THEN Lower(Strip(tokens[2])) ELSE None))
       ELSE Handled(TS, RS, Reply("MODEL_USAGE", NoneObj), <<>>, FALSE)

_handle_reasoning_command(TS, RS, c, msg, tokens, ambient_context) ==
    LET action == IF tokens # <<>> THEN Lower(tokens[1]) ELSE tok_show
        ids == {Lower(e) : e \in EngineIdSet}
        parsed == _parse_override_set_args(tokens, ids)
        level == Lower(Strip(parsed.value))
        Set(sel) ==
            IF ~supports_reasoning(sel.ret.engine)
            THEN Handled(sel.ts, sel.rs,
                         Reply("engine does not support reasoning overrides.",
                               [engine |-> sel.ret.engine]),
                         <<>>, FALSE)
            ELSE IF level \notin allowed_reasoning_levels
            THEN Handled(sel.ts, sel.rs,
                         Reply("unknown reasoning level", [value |-> parsed.value]),
                         <<>>, FALSE)
            ELSE OverrideReply(
                     _apply_override_update(sel.ts, sel.rs, c, msg,
                                            sel.ret.engine,
                                            OverrideUpdate("reasoning", level)),
                     "reasoning override set", level, sel.ret.engine)
        Clear(sel) ==
            IF sel.ret.engine \notin ids
            THEN Handled(sel.ts, sel.rs,
                         Reply("unknown engine", [engine |-> sel.ret.engine]),
                         <<>>, FALSE)
            ELSE OverrideReply(
                     _apply_override_update(sel.ts, sel.rs, c, msg,
                                            sel.ret.engine,
                                            OverrideUpdate("reasoning", None)),
                     "reasoning override cleared.", None, sel.ret.engine)
    IN IF action \in {tok_show, <<>>}
       THEN OverrideShow(TS, RS, c, msg, ambient_context, "reasoning")
       ELSE IF action = tok_set
       THEN IF parsed.value = None
            THEN Handled(TS, RS, Reply("REASONING_USAGE", NoneObj), <<>>, FALSE)
            ELSE Set(EngineFor(TS, RS, c, msg, ambient_context, parsed.engine))
       ELSE IF action = tok_clear
       THEN IF Len(tokens) > 2
            THEN Handled(TS, RS, Reply("REASONING_USAGE", NoneObj), <<>>, FALSE)
            ELSE Clear(EngineFor(TS, RS, c, msg, ambient_context,
                                 IF Len(tokens) = 2
                                 THEN Lower(Strip(tokens[2])) ELSE None))
       ELSE Handled(TS, RS, Reply("REASONING_USAGE", NoneObj), <<>>, FALSE)

(* runtime.normalize_project_key: the key of a configured project, found  *)
(* case-insensitively, or None.                                            *)
ProjectKeys == {app, website}

normalize_project_key(token) ==
    IF Lower(token) \in ProjectKeys THEN Lower(token) ELSE None

(* runtime.resolve_message(text="", ...): the ambient context, if any. *)
resolve_message(ambient_context) ==
    [context |-> ambient_context,
     context_source |-> IF ambient_context = NoneObj THEN "none" ELSE "ambient"]

CtxSetParseResult(context, error) == [context |-> context, error |-> error]

NoError == ""

StartsWithAt(token) == token # <<>> /\ Head(token) = "@"

_parse_ctx_set_args(tokens, default_project) ==
    IF tokens = <<>> THEN CtxSetParseResult(NoneObj, "CTX_USAGE")
    ELSE IF Len(tokens) > 2 THEN CtxSetParseResult(NoneObj, "too many arguments")
    ELSE LET first == tokens[1]
             project_token == IF StartsWithAt(first) THEN None ELSE first
             branch == IF StartsWithAt(first) THEN OrElse(Tail(first), None)
                       ELSE IF Len(tokens) = 2 THEN OrElse(Tail(tokens[2]), None)
                       ELSE None
             project_key == IF project_token = None THEN default_project
                            ELSE normalize_project_key(project_token)
         IN IF ~StartsWithAt(first) /\ Len(tokens) = 2 /\ ~StartsWithAt(tokens[2])
            THEN CtxSetParseResult(NoneObj, "branch must be prefixed with @")
            ELSE IF project_token = None /\ default_project = None
            THEN CtxSetParseResult(NoneObj, "project is required")
            ELSE IF project_key = None
            THEN CtxSetParseResult(NoneObj, "unknown project")
            ELSE CtxSetParseResult(RunContext(project_key, branch), NoError)

_format_context(context) ==
    IF context = NoneObj THEN <<none_text>>
    ELSE IF context.project = None THEN <<none_text>>
    ELSE IF context.branch # None /\ context.branch # <<>>
    THEN <<context.project, context.branch>>
    ELSE <<context.project>>

_handle_ctx_command(TS, RS, c, msg, tokens, ambient_context) ==
    LET action == IF tokens # <<>> THEN Lower(tokens[1]) ELSE tok_show
        room_id == msg.room_id
        thread_root == _thread_scope(msg, c)
    IN IF action \in {tok_show, <<>>}
       THEN LET t == IF thread_root # None
                     THEN get_context(TS, room_id, thread_root)
                     ELSE Result(TS, NoneObj, FALSE)
                r == IF thread_root = None /\ c.room_prefs
                     THEN room_get_context(RS, room_id)
                     ELSE Result(RS, NoneObj, FALSE)
                bound == IF thread_root # None THEN t.ret ELSE r.ret
                scope == IF thread_root # None THEN "thread" ELSE "room"
                resolved == resolve_message(ambient_context)
                source == IF bound # NoneObj /\ resolved.context_source = "ambient"
                          THEN "bound" ELSE resolved.context_source
            IN Handled(t.store, r.store,
                       Reply("ctx",
                             [scope |-> scope,
                              bound |-> _format_context(bound),
                              resolved |-> _format_context(resolved.context),
                              source |-> source,
                              unbound |-> bound = NoneObj]),
                       <<>>, FALSE)
       ELSE IF action = tok_set
       THEN LET default_project == IF ambient_context # NoneObj
                                   THEN ambient_context.project ELSE None
                parsed == _parse_ctx_set_args(Tail(tokens), default_project)
            IN IF parsed.error # NoError \/ parsed.context = NoneObj
               THEN Handled(TS, RS, Reply("error", [error |-> parsed.error]), <<>>, FALSE)
               ELSE IF thread_root # None
               THEN LET r == set_context(TS, room_id, thread_root, parsed.context)
                    IN Handled(r.store, RS,
                               Reply("thread bound to",
                                     [bound |-> _format_context(parsed.context)]),
                               <<"thread_state.set_context">>, r.wrote)
               ELSE IF ~c.room_prefs
               THEN Handled(TS, RS,
                            Reply("room context store unavailable.", NoneObj),
                            <<>>, FALSE)
               ELSE LET r == room_set_context(RS, room_id, parsed.context)
                    IN Handled(TS, r.store,
                               Reply("room bound to",
                                     [bound |-> _format_context(parsed.context)]),
                               <<"room_prefs.set_context">>, r.wrote)
       ELSE IF action = tok_clear
       THEN IF thread_root # None
            THEN LET r == clear_context(TS, room_id, thread_root)
                 IN Handled(r.store, RS, Reply("thread context cleared.", NoneObj),
                            <<"thread_state.clear_context">>, r.wrote)
            ELSE IF ~c.room_prefs
            THEN Handled(TS, RS,
                         Reply("room context store unavailable.", NoneObj),
                         <<>>, FALSE)
            ELSE LET r == room_clear_context(RS, room_id)
                 IN Handled(TS, r.store, Reply("room context cleared.", NoneObj),
                            <<"room_prefs.clear_context">>, r.wrote)
       ELSE Handled(TS, RS, Reply("unknown /ctx command", NoneObj), <<>>, FALSE)

----------------------------------------------------------------------------
(* Inputs *)

r1 == "!r1"

r2 == "!r2"

Rooms == {r1, r2}

t1 == <<"$","1">>

t2 == <<"$","2">>

blank == <<" ">>

(* Thread root ids as callers pass them: one plain, one with whitespace. *)
ThreadRootInputs == {t1, <<" ","$","2">>}

opus == <<"O","p","u","s">>

EngineInputs == {codex, <<"C","L","A","U","D","E"," ">>}

(* An unknown engine id as a caller may pass it, with surrounding blanks. *)
paddedOpus == <<" ","O","p","u","s"," ">>

DefaultEngineInputs == {codex, paddedOpus, <<>>}

ModeInputs == {mentions, all, <<"M","E","N","T","I","O","N","S">>}

modelA == <<"A">>

modelB == <<"B">>

OverrideInputs ==
    {EngineOverrides(modelA, None),
     EngineOverrides(None, high),
     EngineOverrides(<<" ","B">>, low),
     EngineOverrides(blank, None)}

dev == <<"d","e","v">>

ContextInputs ==
    {RunContext(app, None),
     RunContext(website, dev),
     RunContext(blank, dev)}

s1 == <<"s","1">>

ResumeInputs ==
    {ResumeToken(codex, s1),
     ResumeToken(<<"C","L","A","U","D","E">>, <<"s","2"," ">>),
     ResumeToken(codex, blank)}

Message(room_id, thread_root_event_id) ==
    [room_id |-> room_id, thread_root_event_id |-> thread_root_event_id]

Messages == {Message(r1, None), Message(r1, t1), Message(r2, t2)}

AmbientInputs == {NoneObj, RunContext(app, None)}

AgentTokens ==
    {<<>>, <<tok_set>>, <<tok_set, <<"C","l","a","u","d","e">>>>,
     <<tok_set, opus>>, <<tok_clear>>, <<opus>>}

ModelTokens ==
    {<<>>, <<tok_set>>, <<tok_set, modelA>>, <<tok_set, claude, modelB>>,
     <<tok_set, opus, modelA>>, <<tok_clear>>, <<tok_clear, claude>>,
     <<tok_clear, opus>>, <<tok_clear, codex, modelA>>, <<opus>>}

ReasoningTokens ==
    {<<>>, <<tok_set>>, <<tok_set, high>>, <<tok_set, codex, low>>,
     <<tok_set, claude, high>>, <<tok_set, opus>>, <<tok_clear>>,
     <<tok_clear, codex>>, <<tok_clear, opus>>, <<tok_clear, codex, high>>,
     <<opus>>}

TriggerTokens ==
    {<<>>, <<all>>, <<mentions>>, <<tok_clear>>, <<opus>>}

CtxTokens ==
    {<<>>, <<tok_set>>, <<tok_set, app>>, <<tok_set, website, <<"@","d","e","v">>>>,
     <<tok_set, <<"@","d","e","v">>>>, <<tok_set, opus>>, <<tok_set, app, dev>>,
     <<tok_clear>>, <<opus>>}

Config(thread_state, room_prefs, chat_sessions) ==
    [thread_state |-> thread_state, room_prefs |-> room_prefs,
     chat_sessions |-> chat_sessions]

FullConfig == Config(TRUE, TRUE, TRUE)

Configs ==
    {FullConfig, Config(FALSE, TRUE, TRUE), Config(TRUE, FALSE, TRUE),
     Config(TRUE, TRUE, FALSE)}

----------------------------------------------------------------------------
(* /repo: the project repositories under REPO_ROOT, the config file and    *)
(* the git processes the handler runs.                                     *)

Digits == {"0","1","2","3","4","5","6","7","8","9"}

AlnumChars ==
    {UpperChars[i] : i \in 1..Len(UpperChars)}
        \cup {LowerChars[i] : i \in 1..Len(LowerChars)} \cup Digits

(* ALIAS_RE.match(alias) for ^[A-Za-z0-9][A-Za-z0-9._-]*$ on a stripped    *)
(* alias.                                                                  *)
ALIAS_RE(alias) ==
    /\ alias # <<>>
    /\ alias[1] \in AlnumChars
    /\ \A i \in 2..Len(alias) : alias[i] \in AlnumChars \cup {".", "_", "-"}

(* str.startswith *)
startswith(s, prefix) ==
    Len(s) >= Len(prefix) /\ SubSeq(s, 1, Len(prefix)) = prefix

_ALLOWED_GIT_SCHEMES ==
    <<<<"h","t","t","p","s",":","/","/">>,
      <<"h","t","t","p",":","/","/">>,
      <<"g","i","t",":","/","/">>,
      <<"s","s","h",":","/","/">>,
      <<"g","i","t","@">>>>

file_scheme == <<"f","i","l","e",":","/","/">>

(* _validate_git_url without the list of allowed schemes. *)
_validate_git_url_AnyScheme(url) ==
    IF url = <<>> THEN "empty URL"
    ELSE IF startswith(url, <<"-">>) THEN "URL cannot start with '-'"
    ELSE IF startswith(Lower(url), file_scheme)
    THEN "file:// protocol not allowed"
    ELSE NoError

_validate_git_url(url) ==
    IF url = <<>> THEN "empty URL"
    ELSE IF startswith(url, <<"-">>) THEN "URL cannot start with '-'"
    ELSE IF startswith(Lower(url), file_scheme)
    THEN "file:// protocol not allowed"
    ELSE IF ~\E i \in 1..Len(_ALLOWED_GIT_SCHEMES) :
                startswith(url, _ALLOWED_GIT_SCHEMES[i])
    THEN "URL must start with one of"
    ELSE NoError

(* What the handler works on: whether the runtime has a config path, the   *)
(* directories under REPO_ROOT ("git" with a .git inside, "plain"          *)
(* without), and the projects and room bindings the config file holds.     *)
RepoEnv(config_path, dirs, projects, room_projects) ==
    [config_path |-> config_path, dirs |-> dirs, projects |-> projects,
     room_projects |-> room_projects]

NoRepos == RepoEnv(FALSE, EmptyDict, {}, EmptyDict)

(* Something the handler did outside the process: a git process it ran,    *)
(* with its return code, or a write of the config file.                    *)
Effect(call, returncode) == [call |-> call, returncode |-> returncode]

Ran(ok, message, dirs, calls) ==
    [ok |-> ok, message |-> message, dirs |-> dirs, calls |-> calls]

_repo_clone_or_fetch(dirs, alias, git_url, returncode) ==
    IF alias \in DOMAIN dirs
    THEN IF dirs[alias] = "git"
         THEN Ran(returncode = 0,
                  IF returncode = 0 THEN "updated existing repo"
                  ELSE "command failed",
                  dirs, <<Effect("git fetch", returncode)>>)
         ELSE Ran(FALSE, "target path exists and is not a git repo", dirs, <<>>)
    ELSE IF git_url = <<>> THEN Ran(FALSE, "repo does not exist", dirs, <<>>)
    ELSE Ran(returncode = 0,
             IF returncode = 0 THEN "cloned" ELSE "command failed",
             IF returncode = 0 THEN DictSet(dirs, alias, "git") ELSE dirs,
             <<Effect("git clone", returncode)>>)

_repo_fetch_only(dirs, alias, returncode) ==
    IF ~(alias \in DOMAIN dirs /\ dirs[alias] = "git")
    THEN Ran(FALSE, "repo not found", dirs, <<>>)
    ELSE Ran(returncode = 0,
             IF returncode = 0 THEN "ok" ELSE "command failed",
             dirs, <<Effect("git fetch", returncode)>>)

_resolve_project_alias(token) == normalize_project_key(token)

(* sorted(set(cfg.runtime.project_aliases()), key=str.lower) *)
SortedProjectAliases == <<app, website>>

(* The loop of /repo fetch: one fetch per alias, in order; returncodes are *)
(* the return codes of the processes in the order they run.                *)
RECURSIVE FetchEach(_, _, _)
FetchEach(aliases, dirs, returncodes) ==
    IF aliases = <<>> THEN [results |-> <<>>, calls |-> <<>>]
    ELSE LET ran == _repo_fetch_only(dirs, Head(aliases), Head(returncodes))
             rest == FetchEach(Tail(aliases), dirs,
                               IF ran.calls # <<>> THEN Tail(returncodes)
                               ELSE returncodes)
         IN [results |-> <<[alias |-> Head(aliases), message |-> ran.message]>>
                             \o rest.results,
             calls |-> ran.calls \o rest.calls]

RepoHandled(env, reply, calls, wrote) ==
    [env |-> env, reply |-> reply, calls |-> calls, wrote |-> wrote]

tok_list == <<"l","i","s","t">>

tok_bind == <<"b","i","n","d">>

tok_add == <<"a","d","d">>

tok_fetch == <<"f","e","t","c","h">>

REPO_USAGE == "usage: /repo list, /repo add, /repo bind, /repo fetch"

(* The runtime's projects are app and website, no room project map is      *)
(* configured, and resolve_run_cwd gives no directory, so that a project's *)
(* repository is looked for under REPO_ROOT.                               *)
_handle_repo_command(env, msg, tokens, returncodes) ==
    LET action == IF tokens # <<>> THEN Lower(tokens[1]) ELSE tok_list
        Answer(text, args) == RepoHandled(env, Reply(text, args), <<>>, FALSE)
    IN IF action = tok_list
       THEN Answer("projects", [aliases |-> SortedProjectAliases])
       ELSE IF ~env.config_path
       THEN Answer("config path unavailable; cannot update project config.",
                   NoneObj)
       ELSE IF action = tok_bind
       THEN IF Len(tokens) # 2 THEN Answer(REPO_USAGE, NoneObj)
            ELSE LET alias == _resolve_project_alias(tokens[2])
                 IN IF alias = None
                    THEN Answer("unknown project", [token |-> tokens[2]])
                    ELSE RepoHandled(
                             [env EXCEPT !.room_projects =
                                  DictSet(@, msg.room_id, alias)],
                             Reply("bound room", [alias |-> alias]),
                             <<Effect("write config", 0)>>, TRUE)
       ELSE IF action = tok_add
       THEN IF Len(tokens) # 3 THEN Answer(REPO_USAGE, NoneObj)
            ELSE LET alias == Strip(tokens[2])
                     git_url == Strip(tokens[3])
                     url_error == _validate_git_url(git_url)
                 IN IF ~ALIAS_RE(alias)
                    THEN Answer("invalid alias", NoneObj)
                    ELSE IF url_error # NoError
                    THEN Answer("invalid git URL", [error |-> url_error])
                    ELSE IF Lower(alias) \in {Lower(a) : a \in ProjectKeys}
                    THEN Answer("project already exists", [alias |-> alias])
                    ELSE LET ran == _repo_clone_or_fetch(env.dirs, alias,
                                                         git_url, returncodes[1])
                         IN IF ~ran.ok
                            THEN RepoHandled([env EXCEPT !.dirs = ran.dirs],
                                     Reply("error", [message |-> ran.message]),
                                     ran.calls, FALSE)
                            ELSE RepoHandled(
                                     [env EXCEPT !.dirs = ran.dirs,
                                                 !.projects = @ \cup {alias}],
                                     Reply("project written to config",
                                           [message |-> ran.message,
                                            alias |-> alias]),
                                     ran.calls \o <<Effect("write config", 0)>>,
                                     TRUE)
       ELSE IF action = tok_fetch
       THEN IF Len(tokens) > 2 THEN Answer(REPO_USAGE, NoneObj)
            ELSE IF Len(tokens) = 2 /\ _resolve_project_alias(tokens[2]) = None
            THEN Answer("unknown project", [token |-> tokens[2]])
            ELSE LET aliases == IF Len(tokens) = 2
                                THEN <<_resolve_project_alias(tokens[2])>>
                                ELSE SortedProjectAliases
                     f == FetchEach(aliases, env.dirs, returncodes)
                 IN RepoHandled(env, Reply("fetched", [results |-> f.results]),
                                f.calls, FALSE)
       ELSE Answer(REPO_USAGE, NoneObj)

(* Aliases a sender may give: new ones, one that differs from a configured *)
(* project in case only, and two the pattern rejects.                      *)
newrepo == <<"n","e","w">>

AliasInputs ==
    {newrepo, <<"n",".","1">>, <<"A","p","p">>, <<"-","x">>, <<"a","!">>}

https_url == <<"h","t","t","p","s",":","/","/","h","/","r">>

UrlInputs ==
    {<<>>,
     <<"-","-","u">>,
     <<"f","i","l","e",":","/","/","/","r">>,
     <<"F","I","L","E",":","/","/","/","r">>,
     <<"f","t","p",":","/","/","h","/","r">>,
     <<"H","T","T","P","S",":","/","/","h","/","r">>,
     https_url,
     <<"g","i","t","@","h",":","r">>}

RepoTokens ==
    {<<>>, <<tok_list>>, <<tok_bind>>, <<tok_bind, app>>, <<tok_bind, opus>>,
     <<tok_fetch>>, <<tok_fetch, app>>, <<tok_fetch, opus>>,
     <<tok_fetch, app, app>>, <<tok_add>>, <<opus>>,
     <<<<"A","D","D">>, newrepo, https_url>>}
        \cup {<<tok_add, alias, url>> : alias \in AliasInputs, url \in UrlInputs}

(* Return codes of the git processes of one command, in the order they run. *)
ReturnCodes == {<<0, 0>>, <<0, 1>>, <<1, 0>>, <<1, 1>>}

RepoSeeds ==
    {RepoEnv(config_path, dirs, ProjectKeys, EmptyDict) :
         config_path \in BOOLEAN,
         dirs \in {EmptyDict,
                   (app :> "git") @@ (website :> "plain"),
                   (newrepo :> "git") @@ (app :> "git") @@ (website :> "git"),
                   (newrepo :> "plain")}}

----------------------------------------------------------------------------
(* Stores as earlier operations left them.  A store file outlives the      *)
(* process, so a run starts on whatever earlier runs have saved; each of   *)
(* these stores is the outcome of a sequence of store operations on an     *)
(* empty store.                                                            *)

RECURSIVE Replay(_, _)
Replay(S, ops) ==
    IF ops = <<>> THEN S
    ELSE LET o == Head(ops)
             next ==
                 CASE o.op = "set_default_engine" ->
                          set_default_engine(S, o.room, o.thread, o.arg)
                   [] o.op = "set_trigger_mode" ->
                          set_trigger_mode(S, o.room, o.thread, o.arg)
                   [] o.op = "set_context" ->
                          set_context(S, o.room, o.thread, o.arg)
                   [] o.op = "set_session_resume" ->
                          set_session_resume(S, o.room, o.thread, o.arg)
                   [] o.op = "set_engine_override" ->
                          set_engine_override(S, o.room, o.thread, o.arg[1],
                                              o.arg[2])
                   [] o.op = "room.set_default_engine" ->
                          room_set_default_engine(S, o.room, o.arg)
                   [] o.op = "room.set_trigger_mode" ->
                          room_set_trigger_mode(S, o.room, o.arg)
                   [] o.op = "room.set_engine_override" ->
                          room_set_engine_override(S, o.room, o.arg[1], o.arg[2])
         IN Replay(next.store, Tail(ops))

Op(op, room, thread, arg) == [op |-> op, room |-> room, thread |-> thread, arg |-> arg]

EmptyThreadStore == NewStore(_new_state)

EmptyRoomStore == NewStore(_new_room_state)

(* One thread with several fields, a sibling thread and a thread in        *)
(* another room.                                                           *)
BusyThreadStore ==
    Replay(EmptyThreadStore,
           <<Op("set_default_engine", r1, t1, claude),
             Op("set_engine_override", r1, t1, <<claude, EngineOverrides(modelA, None)>>),
             Op("set_session_resume", r1, t1, ResumeToken(codex, s1)),
             Op("set_trigger_mode", r1, t2, mentions),
             Op("set_context", r2, t2, RunContext(app, dev))>>)

(* Threads that hold a single field each. *)
SparseThreadStore ==
    Replay(EmptyThreadStore,
           <<Op("set_session_resume", r1, t1, ResumeToken(codex, s1)),
             Op("set_engine_override", r2, t2, <<codex, EngineOverrides(modelA, None)>>)>>)

ThreadSeeds == {EmptyThreadStore, BusyThreadStore, SparseThreadStore}

BusyRoomStore ==
    Replay(EmptyRoomStore,
           <<Op("room.set_default_engine", r1, None, codex),
             Op("room.set_engine_override", r1, None,
                <<claude, EngineOverrides(modelB, high)>>),
             Op("room.set_trigger_mode", r2, None, mentions)>>)

RoomSeeds == {EmptyRoomStore, BusyRoomStore}

----------------------------------------------------------------------------
(* State machine *)

(* The last operation: its name, the room and thread root it was called   *)
(* with, what it returned (for a command: the reply), whether it wrote a   *)
(* store file, and the mutating store calls a command made.                *)
Last(op, room, thread, ret, obj, wrote, calls) ==
    [op |-> op, room |-> room, thread |-> thread, ret |-> ret, obj |-> obj,
     wrote |-> wrote, calls |-> calls]

(* The tasks that call the thread store concurrently: where each is in    *)
(* its call, the method it calls, the task that holds the store's lock (0  *)
(* when it is free), the calls in the order they took the lock, and the    *)
(* store as the tasks found it.                                            *)
NumTasks == 3

Tasks == 1..NumTasks

NoTasks(S) ==
    [pc |-> [i \in Tasks |-> "idle"],
     op |-> [i \in Tasks |-> Op("none", "", None, NoneObj)],
     holder |-> 0, order |-> <<>>, start |-> S]

Init ==
    /\ threadStore \in ThreadSeeds
    /\ roomStore = EmptyRoomStore
    /\ cfg = FullConfig
    /\ last = Last("init", "", None, None, NoneObj, FALSE, <<>>)
    /\ steps = 0
    /\ sched = NoTasks(EmptyThreadStore)
    /\ repoEnv = NoRepos

(* A call of a thread-store method with result r. *)
ThreadCall(op, room_id, thread, r) ==
    /\ cfg.thread_state
    /\ threadStore' = r.store
    /\ last' = Last(op, room_id, thread, r.ret, NoneObj, r.wrote, <<>>)
    /\ steps' = steps + 1
    /\ UNCHANGED <<roomStore, cfg, sched, repoEnv>>

(* A call of a thread-store method that returns an object. *)
ThreadQuery(op, room_id, thread, r) ==
    /\ cfg.thread_state
    /\ threadStore' = r.store
    /\ last' = Last(op, room_id, thread, None, r.ret, r.wrote, <<>>)
    /\ steps' = steps + 1
    /\ UNCHANGED <<roomStore, cfg, sched, repoEnv>>

(* A call of a room-store method with result r. *)
RoomCall(op, room_id, r) ==
    /\ cfg.room_prefs
    /\ roomStore' = r.store
    /\ last' = Last(op, room_id, None, r.ret, NoneObj, r.wrote, <<>>)
    /\ steps' = steps + 1
    /\ UNCHANGED <<threadStore, cfg, sched, repoEnv>>

(* A call of a room-store method that returns an object. *)
RoomQuery(op, room_id, r) ==
    /\ cfg.room_prefs
    /\ roomStore' = r.store
    /\ last' = Last(op, room_id, None, None, r.ret, r.wrote, <<>>)
    /\ steps' = steps + 1
    /\ UNCHANGED <<threadStore, cfg, sched, repoEnv>>

(* What a resolution leaves: the stores after its reads, its result as the *)
(* reply, no mutating call.                                                *)
FromResolved(r) == Handled(r.ts, r.rs, r.ret, <<>>, FALSE)

ModeResolved(r) == Handled(r.ts, r.rs, [mode |-> r.ret], <<>>, FALSE)

(* A built-in command, or a resolution for an inbound message, with        *)
(* result h.                                                               *)
Command(op, msg, h) ==
    /\ threadStore' = h.ts
    /\ roomStore' = h.rs
    /\ last' = Last(op, msg.room_id, msg.thread_root_event_id, None,
                    h.reply, h.wrote, h.calls)
    /\ steps' = steps + 1
    /\ UNCHANGED <<cfg, sched, repoEnv>>

GetSessionResume ==
    \E room_id \in Rooms, th \in ThreadRootInputs, e \in EngineInputs :
        /\ steps < MaxOps
        /\ ThreadQuery("get_session_resume", room_id, th,
                      get_session_resume(threadStore, room_id, th, e))

SetSessionResume ==
    \E room_id \in Rooms, th \in ThreadRootInputs, token \in ResumeInputs :
        /\ steps < MaxOps
        /\ ThreadCall("set_session_resume", room_id, th,
                      set_session_resume(threadStore, room_id, th, token))

ClearSessions ==
    \E room_id \in Rooms, th \in ThreadRootInputs :
        /\ steps < MaxOps
        /\ ThreadCall("clear_sessions", room_id, th,
                      clear_sessions(threadStore, room_id, th))

GetContext ==
    \E room_id \in Rooms, th \in ThreadRootInputs :
        /\ steps < MaxOps
        /\ ThreadQuery("get_context", room_id, th,
                      get_context(threadStore, room_id, th))

SetContext ==
    \E room_id \in Rooms, th \in ThreadRootInputs, context \in ContextInputs :
        /\ steps < MaxOps
        /\ ThreadCall("set_context", room_id, th,
                      set_context(threadStore, room_id, th, context))

ClearContext ==
    \E room_id \in Rooms, th \in ThreadRootInputs :
        /\ steps < MaxOps
        /\ ThreadCall("clear_context", room_id, th,
                      clear_context(threadStore, room_id, th))

GetDefaultEngine ==
    \E room_id \in Rooms, th \in ThreadRootInputs :
        /\ steps < MaxOps
        /\ ThreadCall("get_default_engine", room_id, th,
                      get_default_engine(threadStore, room_id, th))

SetDefaultEngine ==
    \E room_id \in Rooms, th \in ThreadRootInputs, e \in DefaultEngineInputs :
        /\ steps < MaxOps
        /\ ThreadCall("set_default_engine", room_id, th,
                      set_default_engine(threadStore, room_id, th, e))

ClearDefaultEngine ==
    \E room_id \in Rooms, th \in ThreadRootInputs :
        /\ steps < MaxOps
        /\ ThreadCall("clear_default_engine", room_id, th,
                      clear_default_engine(threadStore, room_id, th))

GetTriggerMode ==
    \E room_id \in Rooms, th \in ThreadRootInputs :
        /\ steps < MaxOps
        /\ ThreadCall("get_trigger_mode", room_id, th,
                      get_trigger_mode(threadStore, room_id, th))

SetTriggerMode ==
    \E room_id \in Rooms, th \in ThreadRootInputs, mode \in ModeInputs :
        /\ steps < MaxOps
        /\ ThreadCall("set_trigger_mode", room_id, th,
                      set_trigger_mode(threadStore, room_id, th, mode))

ClearTriggerMode ==
    \E room_id \in Rooms, th \in ThreadRootInputs :
        /\ steps < MaxOps
        /\ ThreadCall("clear_trigger_mode", room_id, th,
                      clear_trigger_mode(threadStore, room_id, th))

GetEngineOverride ==
    \E room_id \in Rooms, th \in ThreadRootInputs, e \in EngineInputs :
        /\ steps < MaxOps
        /\ ThreadQuery("get_engine_override", room_id, th,
                      get_engine_override(threadStore, room_id, th, e))

SetEngineOverride ==
    \E room_id \in Rooms, th \in ThreadRootInputs, e \in EngineInputs,
       override \in OverrideInputs :
        /\ steps < MaxOps
        /\ ThreadCall("set_engine_override", room_id, th,
                      set_engine_override(threadStore, room_id, th, e, override))

ClearEngineOverride ==
    \E room_id \in Rooms, th \in ThreadRootInputs, e \in EngineInputs :
        /\ steps < MaxOps
        /\ ThreadCall("clear_engine_override", room_id, th,
                      clear_engine_override(threadStore, room_id, th, e))

RoomGetDefaultEngine ==
    \E room_id \in Rooms :
        /\ steps < MaxOps
        /\ RoomCall("room.get_default_engine", room_id,
                    room_get_default_engine(roomStore, room_id))

RoomSetDefaultEngine ==
    \E room_id \in Rooms, e \in DefaultEngineInputs :
        /\ steps < MaxOps
        /\ RoomCall("room.set_default_engine", room_id,
                    room_set_default_engine(roomStore, room_id, e))

RoomClearDefaultEngine ==
    \E room_id \in Rooms :
        /\ steps < MaxOps
        /\ RoomCall("room.clear_default_engine", room_id,
                    room_clear_default_engine(roomStore, room_id))

RoomGetTriggerMode ==
    \E room_id \in Rooms :
        /\ steps < MaxOps
        /\ RoomCall("room.get_trigger_mode", room_id,
                    room_get_trigger_mode(roomStore, room_id))

RoomSetTriggerMode ==
    \E room_id \in Rooms, mode \in ModeInputs :
        /\ steps < MaxOps
        /\ RoomCall("room.set_trigger_mode", room_id,
                    room_set_trigger_mode(roomStore, room_id, mode))

RoomClearTriggerMode ==
    \E room_id \in Rooms :
        /\ steps < MaxOps
        /\ RoomCall("room.clear_trigger_mode", room_id,
                    room_clear_trigger_mode(roomStore, room_id))

RoomGetContext ==
    \E room_id \in Rooms :
        /\ steps < MaxOps
        /\ RoomQuery("room.get_context", room_id,
                    room_get_context(roomStore, room_id))

RoomSetContext ==
    \E room_id \in Rooms, context \in ContextInputs :
        /\ steps < MaxOps
        /\ RoomCall("room.set_context", room_id,
                    room_set_context(roomStore, room_id, context))

RoomClearContext ==
    \E room_id \in Rooms :
        /\ steps < MaxOps
        /\ RoomCall("room.clear_context", room_id,
                    room_clear_context(roomStore, room_id))

RoomGetEngineOverride ==
    \E room_id \in Rooms, e \in EngineInputs :
        /\ steps < MaxOps
        /\ RoomQuery("room.get_engine_override", room_id,
                    room_get_engine_override(roomStore, room_id, e))

RoomSetEngineOverride ==
    \E room_id \in Rooms, e \in EngineInputs, override \in OverrideInputs :
        /\ steps < MaxOps
        /\ RoomCall("room.set_engine_override", room_id,
                    room_set_engine_override(roomStore, room_id, e, override))

RoomClearEngineOverride ==
    \E room_id \in Rooms, e \in EngineInputs :
        /\ steps < MaxOps
        /\ RoomCall("room.clear_engine_override", room_id,
                    room_clear_engine_override(roomStore, room_id, e))

(* An inbound message whose engine is resolved, with or without directive. *)
ResolveEngine ==
    \E msg \in Messages, context \in AmbientInputs,
       explicit_engine \in {None, claude} :
        /\ steps < MaxOps
        /\ Command("resolve_engine", msg,
                   FromResolved(resolve_engine_for_message(
                                    threadStore, roomStore, cfg, context,
                                    explicit_engine, msg.room_id,
                                    msg.thread_root_event_id)))

(* An inbound message whose trigger mode is resolved. *)
ResolveTriggerMode ==
    \E msg \in Messages :
        /\ steps < MaxOps
        /\ Command("resolve_trigger_mode", msg,
                   ModeResolved(resolve_trigger_mode(
                                    threadStore, roomStore, cfg, msg.room_id,
                                    msg.thread_root_event_id)))

CtxCommand ==
    \E msg \in Messages, tokens \in CtxTokens, context \in AmbientInputs :
        /\ steps < MaxOps
        /\ Command("/ctx", msg,
                   _handle_ctx_command(threadStore, roomStore, cfg, msg, tokens,
                                       context))

NewCommand ==
    \E msg \in Messages :
        /\ steps < MaxOps
        /\ Command("/new", msg,
                   _handle_new_command(threadStore, roomStore, cfg, msg))

AgentCommand ==
    \E msg \in Messages, tokens \in AgentTokens, context \in AmbientInputs :
        /\ steps < MaxOps
        /\ Command("/agent", msg,
                   _handle_agent_command(threadStore, roomStore, cfg, msg, tokens,
                                         context))

ModelCommand ==
    \E msg \in Messages, tokens \in ModelTokens, context \in AmbientInputs :
        /\ steps < MaxOps
        /\ Command("/model", msg,
                   _handle_model_command(threadStore, roomStore, cfg, msg, tokens,
                                         context))

ReasoningCommand ==
    \E msg \in Messages, tokens \in ReasoningTokens, context \in AmbientInputs :
        /\ steps < MaxOps
        /\ Command("/reasoning", msg,
                   _handle_reasoning_command(threadStore, roomStore, cfg, msg,
                                             tokens, context))

TriggerCommand ==
    \E msg \in Messages, tokens \in TriggerTokens :
        /\ steps < MaxOps
        /\ Command("/trigger", msg,
                   _handle_trigger_command(threadStore, roomStore, cfg, msg,
                                           tokens))

ThreadStoreNext ==
    \/ GetSessionResume
    \/ SetSessionResume
    \/ ClearSessions
    \/ GetContext
    \/ SetContext
    \/ ClearContext
    \/ GetDefaultEngine
    \/ SetDefaultEngine
    \/ ClearDefaultEngine
    \/ GetTriggerMode
    \/ SetTriggerMode
    \/ ClearTriggerMode
    \/ GetEngineOverride
    \/ SetEngineOverride
    \/ ClearEngineOverride

(* The thread store on its own. *)
Next == ThreadStoreNext

Spec == Init /\ [][Next]_vars

(* A run that starts on the stores and the configuration given. *)
InitOn(threadSeeds, roomSeeds, configs) ==
    /\ threadStore \in threadSeeds
    /\ roomStore \in roomSeeds
    /\ cfg \in configs
    /\ last = Last("init", "", None, None, NoneObj, FALSE, <<>>)
    /\ steps = 0
    /\ sched = NoTasks(EmptyThreadStore)
    /\ repoEnv = NoRepos

(* The room store on its own. *)
InitRoom == InitOn({EmptyThreadStore}, RoomSeeds, {FullConfig})

NextRoom ==
    \/ RoomGetDefaultEngine
    \/ RoomSetDefaultEngine
    \/ RoomClearDefaultEngine
    \/ RoomGetTriggerMode
    \/ RoomSetTriggerMode
    \/ RoomClearTriggerMode
    \/ RoomGetContext
    \/ RoomSetContext
    \/ RoomClearContext
    \/ RoomGetEngineOverride
    \/ RoomSetEngineOverride
    \/ RoomClearEngineOverride

SpecRoom == InitRoom /\ [][NextRoom]_vars

(* Engine selection: the default engines of both scopes, /agent and the    *)
(* resolution for inbound messages.                                        *)
InitEngine ==
    InitOn({EmptyThreadStore, BusyThreadStore}, RoomSeeds,
           {FullConfig, Config(FALSE, TRUE, TRUE), Config(TRUE, FALSE, TRUE)})

NextEngine ==
    \/ SetDefaultEngine
    \/ ClearDefaultEngine
    \/ RoomSetDefaultEngine
    \/ RoomClearDefaultEngine
    \/ AgentCommand
    \/ ResolveEngine

SpecEngine == InitEngine /\ [][NextEngine]_vars

(* Engine overrides: the overrides of both scopes, /model and /reasoning.  *)
InitOverride ==
    \/ InitOn({EmptyThreadStore}, {EmptyRoomStore}, {FullConfig})
    \/ InitOn({BusyThreadStore}, {BusyRoomStore}, {FullConfig})

NextOverride ==
    \/ SetEngineOverride
    \/ ClearEngineOverride
    \/ RoomSetEngineOverride
    \/ RoomClearEngineOverride
    \/ ModelCommand
    \/ ReasoningCommand

SpecOverride == InitOverride /\ [][NextOverride]_vars

(* Trigger mode: the modes of both scopes, /trigger and the resolution for *)
(* inbound messages.                                                       *)
InitTrigger == InitOn(ThreadSeeds, RoomSeeds, Configs)

NextTrigger ==
    \/ SetTriggerMode
    \/ ClearTriggerMode
    \/ RoomSetTriggerMode
    \/ RoomClearTriggerMode
    \/ TriggerCommand
    \/ ResolveTriggerMode

SpecTrigger == InitTrigger /\ [][NextTrigger]_vars

(* The built-in commands and the resolutions, as the bridge runs them. *)
InitCommands ==
    \/ InitOn({EmptyThreadStore}, {EmptyRoomStore}, {FullConfig})
    \/ InitOn({BusyThreadStore}, {BusyRoomStore}, {FullConfig})

NextCommands ==
    \/ CtxCommand
    \/ NewCommand
    \/ AgentCommand
    \/ ModelCommand
    \/ ReasoningCommand
    \/ TriggerCommand
    \/ ResolveEngine
    \/ ResolveTriggerMode

SpecCommands == InitCommands /\ [][NextCommands]_vars

----------------------------------------------------------------------------
(* Tasks on one thread store.  Each task calls one store method: it        *)
(* normalizes its arguments, returns at once when a key is missing, and    *)
(* otherwise waits for the store's lock, then under the lock checks for a  *)
(* reload, mutates the in-memory document, saves when the method saves,    *)
(* and releases the lock.                                                  *)

TaskOps ==
    {Op("set_session_resume", r1, t1, ResumeToken(codex, s1)),
     Op("set_session_resume", r1, t1, ResumeToken(codex, <<"s","2">>)),
     Op("set_session_resume", r1, t1, ResumeToken(codex, blank)),
     Op("set_context", r1, t1, RunContext(app, None)),
     Op("set_context", r1, t1, RunContext(blank, dev))}

(* The method returns before it reaches the lock. *)
ReturnsEarly(o) ==
    IF o.op = "set_session_resume"
    THEN \/ _normalize_text(o.thread) = None
         \/ _normalize_engine_id(o.arg.engine) = None
         \/ _normalize_text(o.arg.value) = None
    ELSE _normalize_text(o.thread) = None

(* The whole method on store S. *)
RunOp(S, o) ==
    IF o.op = "set_session_resume"
    THEN set_session_resume(S, o.room, o.thread, o.arg)
    ELSE set_context(S, o.room, o.thread, o.arg)

(* What the method's statements between the reload check and the save do   *)
(* to the in-memory document, and whether the method goes on to save.      *)
Mutation(S, o) ==
    LET Body(r) == [mem |-> r.store.mem, saves |-> r.wrote]
    IN Body(RunOp([S EXCEPT !.disk = S.loaded], o))

TaskStep(i, step, pc, holder, order, store) ==
    /\ sched' = [sched EXCEPT !.pc[i] = pc, !.holder = holder, !.order = order]
    /\ threadStore' = store
    /\ last' = Last(step, sched'.op[i].room, sched'.op[i].thread, None, NoneObj,
                    step = "save", <<>>)
    /\ UNCHANGED <<roomStore, cfg, steps, repoEnv>>

TaskCall ==
    \E i \in Tasks, o \in TaskOps :
        /\ sched.pc[i] = "idle"
        /\ sched' = [sched EXCEPT !.op[i] = o,
                                  !.pc[i] = IF ReturnsEarly(o) THEN "done"
                                            ELSE "waiting"]
        /\ last' = Last("call", o.room, o.thread, None, NoneObj, FALSE, <<>>)
        /\ UNCHANGED <<threadStore, roomStore, cfg, steps, repoEnv>>

(* async with self._lock, acquired without regard to its holder. *)
TaskAcquire_Unlocked ==
    \E i \in Tasks :
        /\ sched.pc[i] = "waiting"
        /\ TaskStep(i, "acquire", "reload", i, Append(sched.order, sched.op[i]),
                    threadStore)

(* async with self._lock: entered when no task holds the lock. *)
TaskAcquire ==
    \E i \in Tasks :
        /\ sched.pc[i] = "waiting"
        /\ sched.holder = 0
        /\ TaskStep(i, "acquire", "reload", i, Append(sched.order, sched.op[i]),
                    threadStore)

TaskReload ==
    \E i \in Tasks :
        /\ sched.pc[i] = "reload"
        /\ TaskStep(i, "reload", "mutate", sched.holder, sched.order,
                    _reload_locked_if_needed(threadStore))

(* The method's statements on the document; a method that does not save    *)
(* leaves the lock here.                                                   *)
TaskMutate ==
    \E i \in Tasks :
        /\ sched.pc[i] = "mutate"
        /\ LET m == Mutation(threadStore, sched.op[i])
           IN TaskStep(i, "mutate", IF m.saves THEN "save" ELSE "done",
                       IF m.saves THEN sched.holder
                       ELSE IF sched.holder = i THEN 0 ELSE sched.holder,
                       sched.order, [threadStore EXCEPT !.mem = m.mem])

(* self._save_locked() and the end of the async with block. *)
TaskSave ==
    \E i \in Tasks :
        /\ sched.pc[i] = "save"
        /\ TaskStep(i, "save", "done",
                    IF sched.holder = i THEN 0 ELSE sched.holder,
                    sched.order, _save_locked(threadStore))

InitLock ==
    /\ threadStore \in ThreadSeeds
    /\ roomStore = EmptyRoomStore
    /\ cfg = FullConfig
    /\ last = Last("init", "", None, None, NoneObj, FALSE, <<>>)
    /\ steps = 0
    /\ sched = NoTasks(threadStore)
    /\ repoEnv = NoRepos

NextLock ==
    \/ TaskCall
    \/ TaskAcquire
    \/ TaskReload
    \/ TaskMutate
    \/ TaskSave

SpecLock == InitLock /\ [][NextLock]_vars

----------------------------------------------------------------------------
(* The store's file written from outside: by another store instance on    *)
(* the same path, or by hand.  The store's own document and the content it *)
(* last loaded or saved stay as they are.                                  *)

(* Documents another instance has saved; the session "x" is one no call of *)
(* this instance writes.                                                   *)
ExternalDocs ==
    {Replay(EmptyThreadStore,
            <<Op("set_session_resume", r2, t2, ResumeToken(codex, <<"x">>))>>).mem,
     Replay(EmptyThreadStore,
            <<Op("set_session_resume", r2, t2, ResumeToken(codex, <<"x">>)),
              Op("set_default_engine", r1, t1, codex),
              Op("set_session_resume", r1, t1, ResumeToken(claude, <<"x">>))>>).mem}

ExternalEdit ==
    \E doc \in ExternalDocs :
        /\ threadStore.disk # doc
        /\ threadStore' = [threadStore EXCEPT !.disk = doc]
        /\ last' = Last("external", "", None, None, NoneObj, FALSE, <<>>)
        /\ UNCHANGED <<roomStore, cfg, steps, sched, repoEnv>>

InitReload == InitOn(ThreadSeeds, {EmptyRoomStore}, {FullConfig})

NextReload ==
    \/ ExternalEdit
    \/ GetSessionResume
    \/ SetSessionResume
    \/ GetDefaultEngine
    \/ SetDefaultEngine

SpecReload == InitReload /\ [][NextReload]_vars

----------------------------------------------------------------------------
(* Writes that fail.  _save_locked writes a temporary file and renames it  *)
(* over the store's file; when the write fails (disk full, permission) the *)
(* store's file is not reached, and the error leaves the method, which     *)
(* has no handler around the save.  The in-memory document already holds   *)
(* the method's change.                                                    *)

OSError == [error |-> <<"O","S","E","r","r","o","r">>]

(* A failing write that had opened the store's file itself: the file holds *)
(* the new document although the method raised.                            *)
WriteFails_InPlace(S, r) ==
    Result([mem |-> r.store.mem, disk |-> r.store.mem,
            loaded |-> _reload_locked_if_needed(S).loaded], None, FALSE)

(* The outcome of a method on store S whose save fails, r being what the   *)
(* method yields when the save succeeds.                                   *)
WriteFails(S, r) ==
    Result([mem |-> r.store.mem, disk |-> _reload_locked_if_needed(S).disk,
            loaded |-> _reload_locked_if_needed(S).loaded], None, FALSE)

(* A call whose save raised and which kept the error from its caller. *)
ThreadRaise_Swallowed(op, room_id, thread, r) ==
    /\ cfg.thread_state
    /\ threadStore' = r.store
    /\ last' = Last(op, room_id, thread, None, NoneObj, FALSE, <<"_save_locked">>)
    /\ steps' = steps + 1
    /\ UNCHANGED <<roomStore, cfg, sched, repoEnv>>

(* A call of a thread-store method that raised from its save. *)
ThreadRaise(op, room_id, thread, r) ==
    /\ cfg.thread_state
    /\ threadStore' = r.store
    /\ last' = Last(op, room_id, thread, None, OSError, FALSE, <<"_save_locked">>)
    /\ steps' = steps + 1
    /\ UNCHANGED <<roomStore, cfg, sched, repoEnv>>

SetSessionResumeFails ==
    \E room_id \in Rooms, th \in ThreadRootInputs, token \in ResumeInputs :
        /\ steps < MaxOps
        /\ set_session_resume(threadStore, room_id, th, token).wrote
        /\ ThreadRaise("set_session_resume", room_id, th,
                       WriteFails(threadStore,
                                  set_session_resume(threadStore, room_id, th,
                                                     token)))

SetDefaultEngineFails ==
    \E room_id \in Rooms, th \in ThreadRootInputs, e \in DefaultEngineInputs :
        /\ steps < MaxOps
        /\ set_default_engine(threadStore, room_id, th, e).wrote
        /\ ThreadRaise("set_default_engine", room_id, th,
                       WriteFails(threadStore,
                                  set_default_engine(threadStore, room_id, th,
                                                     e)))

InitFaults == InitOn(ThreadSeeds, {EmptyRoomStore}, {FullConfig})

NextFaults ==
    \/ SetSessionResumeFails
    \/ SetDefaultEngineFails
    \/ SetSessionResume
    \/ GetSessionResume
    \/ SetDefaultEngine
    \/ GetDefaultEngine
    \/ ExternalEdit

SpecFaults == InitFaults /\ [][NextFaults]_vars

----------------------------------------------------------------------------
(* Opening a store (Durable Versioned Store: open).  An absent file gives  *)
(* the empty document at the current version; a file that does not parse   *)
(* is fatal; a file of an older version is migrated step by step, a        *)
(* missing step is fatal, and the migrated document is saved at once.      *)

(* A file whose content is not JSON. *)
Malformed == [malformed |-> TRUE]

(* A store instance before open, and one whose open failed. *)
Closed == [closed |-> TRUE]

Fatal == [fatal |-> TRUE]

ClosedStore(file) == [mem |-> Closed, disk |-> file, loaded |-> Closed]

(* The room store's legacy value of a room: the engine id alone. *)
Flat(engine) == [flat |-> engine]

(* The versions a store has a migration step from.  The thread store is    *)
(* constructed without migrations; the room store migrates version 1.      *)
migrations(kind) == IF kind = "room" THEN {1} ELSE {}

(* A step that does not know the flat format and starts such rooms anew. *)
migrate_step_DropFlat(kind, doc) ==
    Document(doc.version + 1,
             [r \in DOMAIN doc.rooms |->
                  IF "flat" \in DOMAIN doc.rooms[r] THEN _new_room_entry
                  ELSE doc.rooms[r]])

(* The step from doc.version to doc.version + 1. *)
migrate_step(kind, doc) ==
    Document(doc.version + 1,
             [r \in DOMAIN doc.rooms |->
                  IF "flat" \in DOMAIN doc.rooms[r]
                  THEN [_new_room_entry EXCEPT
                            !.default_engine = doc.rooms[r].flat]
                  ELSE doc.rooms[r]])

Opened(store, applied, wrote) ==
    [status |-> "ok", store |-> store, applied |-> applied, wrote |-> wrote]

OpenFailed(file, applied) ==
    [status |-> "fatal",
     store |-> [mem |-> Fatal, disk |-> file, loaded |-> Closed],
     applied |-> applied, wrote |-> FALSE]

(* Migration that keeps the migrated document in memory and leaves the     *)
(* file at its old version.                                                *)
RECURSIVE Migrate_Unsaved(_, _, _, _, _)
Migrate_Unsaved(kind, file, version, doc, applied) ==
    IF doc.version = version
    THEN Opened([mem |-> doc, disk |-> file, loaded |-> file], applied, FALSE)
    ELSE IF doc.version \notin migrations(kind) THEN OpenFailed(file, applied)
    ELSE Migrate_Unsaved(kind, file, version, migrate_step(kind, doc),
                         Append(applied, doc.version))

RECURSIVE Migrate(_, _, _, _, _)
Migrate(kind, file, version, doc, applied) ==
    IF doc.version = version
    THEN Opened([mem |-> doc, disk |-> doc, loaded |-> doc], applied, TRUE)
    ELSE IF doc.version \notin migrations(kind) THEN OpenFailed(file, applied)
    ELSE Migrate(kind, file, version, migrate_step(kind, doc),
                 Append(applied, doc.version))

(* open that starts from the empty document when the file does not parse. *)
open_store_Reset(kind, file, version, factory) ==
    IF file = NoFile \/ file = Malformed
    THEN Opened([mem |-> factory, disk |-> file, loaded |-> file], <<>>, FALSE)
    ELSE IF file.version = version
    THEN Opened([mem |-> file, disk |-> file, loaded |-> file], <<>>, FALSE)
    ELSE Migrate(kind, file, version, file, <<>>)

open_store(kind, file, version, factory) ==
    IF file = NoFile
    THEN Opened([mem |-> factory, disk |-> NoFile, loaded |-> NoFile],
                <<>>, FALSE)
    ELSE IF file = Malformed THEN OpenFailed(file, <<>>)
    ELSE IF file.version = version
    THEN Opened([mem |-> file, disk |-> file, loaded |-> file], <<>>, FALSE)
    ELSE Migrate(kind, file, version, file, <<>>)

(* Files a store is opened on. *)
ThreadFiles ==
    {NoFile, Malformed, Document(0, EmptyDict), BusyThreadStore.mem}

RoomFiles ==
    {NoFile, Malformed, BusyRoomStore.mem,
     Document(0, (r1 :> Flat(opus))),
     Document(1, (r1 :> Flat(opus)) @@ (r2 :> Flat(<<"s","o","n","n","e","t">>))),
     Document(1, (r1 :> Flat(claude))
                 @@ (r2 :> [_new_room_entry EXCEPT !.trigger_mode = mentions]))}

FatalError == [error |-> <<"f","a","t","a","l">>]

(* The result of an open as the last operation. *)
OpenLast(op, o) ==
    Last(op, "", None, None, IF o.status = "fatal" THEN FatalError ELSE NoneObj,
         o.wrote, [i \in 1..Len(o.applied) |-> "migrate"])

OpenThreadState ==
    /\ threadStore.mem = Closed
    /\ threadStore' = open_store("thread", threadStore.disk, STATE_VERSION,
                                 _new_state).store
    /\ last' = OpenLast("open_thread_state",
                        open_store("thread", threadStore.disk, STATE_VERSION,
                                   _new_state))
    /\ UNCHANGED <<roomStore, cfg, steps, sched, repoEnv>>

OpenRoomPrefs ==
    /\ roomStore.mem = Closed
    /\ roomStore' = open_store("room", roomStore.disk, ROOM_STATE_VERSION,
                               _new_room_state).store
    /\ last' = OpenLast("open_room_prefs",
                        open_store("room", roomStore.disk, ROOM_STATE_VERSION,
                                   _new_room_state))
    /\ UNCHANGED <<threadStore, cfg, steps, sched, repoEnv>>

ThreadIsOpen == threadStore.mem # Closed /\ threadStore.mem # Fatal

RoomIsOpen == roomStore.mem # Closed /\ roomStore.mem # Fatal

InitOpen ==
    /\ threadStore \in {ClosedStore(f) : f \in ThreadFiles}
    /\ roomStore \in {ClosedStore(f) : f \in RoomFiles}
    /\ cfg = FullConfig
    /\ last = Last("init", "", None, None, NoneObj, FALSE, <<>>)
    /\ steps = 0
    /\ sched = NoTasks(EmptyThreadStore)
    /\ repoEnv = NoRepos

NextOpen ==
    \/ OpenThreadState
    \/ OpenRoomPrefs
    \/ (ThreadIsOpen /\ GetDefaultEngine)
    \/ (ThreadIsOpen /\ SetDefaultEngine)
    \/ (RoomIsOpen /\ RoomGetDefaultEngine)
    \/ (RoomIsOpen /\ RoomGetTriggerMode)
    \/ (RoomIsOpen /\ RoomSetTriggerMode)
    \/ (RoomIsOpen /\ RoomGetEngineOverride)

SpecOpen == InitOpen /\ [][NextOpen]_vars

----------------------------------------------------------------------------
(* Documents with a field of the wrong JSON type, as a hand-edited file    *)
(* may hold them, read by the thread store's getters.                      *)

WellTypedEntry ==
    [context_project |-> app,
     context_branch |-> dev,
     default_engine |-> claude,
     trigger_mode |-> mentions,
     engine_overrides |-> (claude :> EngineOverrides(modelA, high)),
     sessions |-> (codex :> s1)]

IllTypedEntries ==
    {[WellTypedEntry EXCEPT !.default_engine = Number],
     [WellTypedEntry EXCEPT !.trigger_mode = Number],
     [WellTypedEntry EXCEPT !.context_project = Number],
     [WellTypedEntry EXCEPT !.context_branch = Number],
     [WellTypedEntry EXCEPT !.engine_overrides = NotAMap],
     [WellTypedEntry EXCEPT !.sessions = NotAMap],
     [WellTypedEntry EXCEPT !.engine_overrides =
          (claude :> EngineOverrides(Number, high))],
     [WellTypedEntry EXCEPT !.engine_overrides =
          (claude :> EngineOverrides(modelA, Number))],
     [WellTypedEntry EXCEPT !.engine_overrides = (claude :> NotAnOverride)],
     [WellTypedEntry EXCEPT !.sessions = (codex :> Number)]}

(* A store that has loaded the file holding entry for thread $1 of !r1. *)
LoadedStore(entry) ==
    LET doc == Document(STATE_VERSION, (r1 :> (t1 :> entry)))
    IN [mem |-> doc, disk |-> doc, loaded |-> doc]

InitTypes ==
    InitOn({LoadedStore(e) : e \in IllTypedEntries \cup {WellTypedEntry}},
           {EmptyRoomStore}, {FullConfig})

NextTypes ==
    \/ GetDefaultEngine
    \/ GetTriggerMode
    \/ GetContext
    \/ GetEngineOverride
    \/ GetSessionResume

SpecTypes == InitTypes /\ [][NextTypes]_vars

----------------------------------------------------------------------------
(* The commands that change preferences or sessions, under every           *)
(* configuration of the stores.                                            *)

InitScope ==
    \/ InitOn({EmptyThreadStore}, {EmptyRoomStore}, Configs)
    \/ InitOn({BusyThreadStore}, {BusyRoomStore}, Configs)

NextScope ==
    \/ CtxCommand
    \/ NewCommand
    \/ AgentCommand
    \/ ModelCommand
    \/ ReasoningCommand
    \/ TriggerCommand

SpecScope == InitScope /\ [][NextScope]_vars

----------------------------------------------------------------------------
(* /repo commands on the repositories and the config file. *)

InitRepo ==
    /\ threadStore = EmptyThreadStore
    /\ roomStore = EmptyRoomStore
    /\ cfg = FullConfig
    /\ last = Last("init", "", None, None, NoneObj, FALSE, <<>>)
    /\ steps = 0
    /\ sched = NoTasks(EmptyThreadStore)
    /\ repoEnv \in RepoSeeds

RepoCommand ==
    \E msg \in Messages, tokens \in RepoTokens, returncodes \in ReturnCodes :
        LET h == _handle_repo_command(repoEnv, msg, tokens, returncodes)
        IN /\ steps < MaxOps
           /\ repoEnv' = h.env
           /\ last' = Last("/repo", msg.room_id, msg.thread_root_event_id, None,
                           h.reply, h.wrote, h.calls)
           /\ steps' = steps + 1
           /\ UNCHANGED <<threadStore, roomStore, cfg, sched>>

NextRepo == RepoCommand

SpecRepo == InitRepo /\ [][NextRepo]_vars

----------------------------------------------------------------------------
(* The thread store written and read back: every setter and clear, and the *)
(* getters of the context and of the overrides.                            *)

InitReadBack ==
    InitOn({EmptyThreadStore, SparseThreadStore}, {EmptyRoomStore}, {FullConfig})

NextReadBack ==
    \/ SetSessionResume
    \/ ClearSessions
    \/ SetContext
    \/ ClearContext
    \/ GetContext
    \/ SetDefaultEngine
    \/ ClearDefaultEngine
    \/ SetTriggerMode
    \/ ClearTriggerMode
    \/ SetEngineOverride
    \/ ClearEngineOverride
    \/ GetEngineOverride

SpecReadBack == InitReadBack /\ [][NextReadBack]_vars

----------------------------------------------------------------------------
(* Handlers that update an override concurrently.  _apply_override_update  *)
(* awaits the store's get_engine_override and then its set_engine_override:*)
(* two transactions, each under the store's lock, with the handler         *)
(* suspended at each lock acquisition.  Between the two another handler    *)
(* may run.                                                                *)

Handlers == {1, 2}

UpdateInputs ==
    {OverrideUpdate("model", modelA),
     OverrideUpdate("reasoning", high),
     OverrideUpdate("reasoning", low)}

UpdateMessages == {Message(r1, t1), Message(r1, None)}

(* A handler inside _apply_override_update: its arguments and the override *)
(* it read.                                                                *)
Pending(msg, engine, update, current) ==
    [msg |-> msg, engine |-> engine, update |-> update, current |-> current]

HandlerStep(i, step, pc, pending, TS, RS, wrote) ==
    /\ sched' = [sched EXCEPT !.pc[i] = pc,
                              !.op[i] = Op("update", pending.msg.room_id,
                                           pending.msg.thread_root_event_id,
                                           pending)]
    /\ threadStore' = TS
    /\ roomStore' = RS
    /\ last' = Last(step, pending.msg.room_id, pending.msg.thread_root_event_id,
                    None, pending.current, wrote, <<>>)
    /\ UNCHANGED <<cfg, steps, repoEnv>>

(* _apply_override_update is entered: thread_root = _thread_scope(msg, cfg) *)
(* and, with neither store to use, return None.                            *)
UpdateCall ==
    \E i \in Handlers, msg \in UpdateMessages, update \in UpdateInputs :
        /\ sched.pc[i] = "idle"
        /\ HandlerStep(i, "update.call",
                       IF _thread_scope(msg, cfg) = None /\ ~cfg.room_prefs
                       THEN "done" ELSE "read",
                       Pending(msg, claude, update, NoneObj),
                       threadStore, roomStore, FALSE)

(* current = await store.get_engine_override(...) *)
UpdateRead ==
    \E i \in Handlers :
        /\ sched.pc[i] = "read"
        /\ LET p == sched.op[i].arg
               thread_root == _thread_scope(p.msg, cfg)
               ThreadRead(r) ==
                   HandlerStep(i, "update.read", "write",
                               [p EXCEPT !.current = r.ret],
                               r.store, roomStore, FALSE)
               RoomRead(r) ==
                   HandlerStep(i, "update.read", "write",
                               [p EXCEPT !.current = r.ret],
                               threadStore, r.store, FALSE)
           IN IF thread_root # None
              THEN ThreadRead(get_engine_override(threadStore, p.msg.room_id,
                                                  thread_root, p.engine))
              ELSE RoomRead(room_get_engine_override(roomStore, p.msg.room_id,
                                                     p.engine))

(* await store.set_engine_override(..., update(current)) *)
UpdateWrite ==
    \E i \in Handlers :
        /\ sched.pc[i] = "write"
        /\ LET p == sched.op[i].arg
               thread_root == _thread_scope(p.msg, cfg)
               ThreadWrite(r) ==
                   HandlerStep(i, "update.write", "done", p, r.store, roomStore,
                               r.wrote)
               RoomWrite(r) ==
                   HandlerStep(i, "update.write", "done", p, threadStore, r.store,
                               r.wrote)
           IN IF thread_root # None
              THEN ThreadWrite(set_engine_override(threadStore, p.msg.room_id,
                                   thread_root, p.engine,
                                   CallUpdate(p.update, p.current)))
              ELSE RoomWrite(room_set_engine_override(roomStore, p.msg.room_id,
                                   p.engine, CallUpdate(p.update, p.current)))

InitUpdate ==
    InitOn({EmptyThreadStore, BusyThreadStore}, {EmptyRoomStore, BusyRoomStore},
           {FullConfig})

NextUpdate ==
    \/ UpdateCall
    \/ UpdateRead
    \/ UpdateWrite

SpecUpdate == InitUpdate /\ [][NextUpdate]_vars

----------------------------------------------------------------------------
(* Tasks on one thread store under fair scheduling.  Besides the calls of  *)
(* the lock slice a task may call clear_context, which awaits set_context  *)
(* with None and holds no lock of its own, and a save may raise, which     *)
(* leaves the async with block and so releases the lock.  The event loop   *)
(* runs every task that can run, and a released lock goes to a waiter.     *)

(* The tasks and the calls of this slice. *)
FairTasks == {1, 2}

FairOps ==
    {Op("set_session_resume", r1, t1, ResumeToken(codex, s1)),
     Op("set_session_resume", r1, t1, ResumeToken(codex, blank)),
     Op("set_context", r1, t1, RunContext(app, None))}

TaskCallFair ==
    \E i \in FairTasks, o \in FairOps :
        /\ sched.pc[i] = "idle"
        /\ sched' = [sched EXCEPT !.op[i] = o,
                                  !.pc[i] = IF ReturnsEarly(o) THEN "done"
                                            ELSE "waiting"]
        /\ last' = Last("call", o.room, o.thread, None, NoneObj, FALSE, <<>>)
        /\ UNCHANGED <<threadStore, roomStore, cfg, steps, repoEnv>>

(* clear_context: await self.set_context(room_id, thread_root_event_id,    *)
(* None), entered while holding the store's lock.                          *)
TaskClear_Locked ==
    \E i \in FairTasks, room_id \in {r1}, th \in {t1, blank} :
        /\ sched.pc[i] = "idle"
        /\ sched.holder = 0
        /\ sched' = [sched EXCEPT !.op[i] = Op("set_context", room_id, th, NoneObj),
                                  !.holder = i,
                                  !.pc[i] = IF _normalize_text(th) = None
                                            THEN "done" ELSE "waiting"]
        /\ last' = Last("call", room_id, th, None, NoneObj, FALSE, <<>>)
        /\ UNCHANGED <<threadStore, roomStore, cfg, steps, repoEnv>>

(* clear_context: await self.set_context(room_id, thread_root_event_id,    *)
(* None).                                                                  *)
TaskClear ==
    \E i \in FairTasks, room_id \in {r1}, th \in {t1, blank} :
        /\ sched.pc[i] = "idle"
        /\ sched' = [sched EXCEPT !.op[i] = Op("set_context", room_id, th, NoneObj),
                                  !.pc[i] = IF _normalize_text(th) = None
                                            THEN "done" ELSE "waiting"]
        /\ last' = Last("call", room_id, th, None, NoneObj, FALSE, <<>>)
        /\ UNCHANGED <<threadStore, roomStore, cfg, steps, repoEnv>>

(* self._save_locked() raises: the file is not reached, the in-memory      *)
(* document keeps the change, and the error leaves the async with block.   *)
TaskSaveFails ==
    \E i \in Tasks :
        /\ sched.pc[i] = "save"
        /\ TaskStep(i, "raise", "done",
                    IF sched.holder = i THEN 0 ELSE sched.holder,
                    sched.order, threadStore)

InitLockFair ==
    /\ InitOn({EmptyThreadStore, SparseThreadStore}, {EmptyRoomStore}, {FullConfig})
    /\ sched.start = EmptyThreadStore

NextLockFair ==
    \/ TaskCallFair
    \/ TaskClear
    \/ TaskAcquire
    \/ TaskReload
    \/ TaskMutate
    \/ TaskSave
    \/ TaskSaveFails

(* A task that can take a step inside a store method takes one. *)
TaskRuns ==
    \/ TaskAcquire
    \/ TaskReload
    \/ TaskMutate
    \/ TaskSave
    \/ TaskSaveFails

SpecLockFair == InitLockFair /\ [][NextLockFair]_vars /\ WF_vars(TaskRuns)

----------------------------------------------------------------------------
(* Calls with blank keys.  Every method of the thread store normalizes the *)
(* thread root id, and the per-engine methods the engine id, and returns   *)
(* before taking the lock when a key is missing.                           *)

ThreadMethods ==
    {"get_session_resume", "set_session_resume", "clear_sessions",
     "get_context", "set_context", "clear_context",
     "get_default_engine", "set_default_engine", "clear_default_engine",
     "get_trigger_mode", "set_trigger_mode", "clear_trigger_mode",
     "get_engine_override", "set_engine_override", "clear_engine_override"}

EngineMethods ==
    {"get_session_resume", "set_session_resume", "get_engine_override",
     "set_engine_override", "clear_engine_override"}

(* The method named op called for room, thread root and engine, with       *)
(* values to store that are not blank.                                     *)
ThreadMethod(S, op, room_id, th, engine) ==
    CASE op = "get_session_resume" -> get_session_resume(S, room_id, th, engine)
      [] op = "set_session_resume" ->
             set_session_resume(S, room_id, th, ResumeToken(engine, s1))
      [] op = "clear_sessions" -> clear_sessions(S, room_id, th)
      [] op = "get_context" -> get_context(S, room_id, th)
      [] op = "set_context" -> set_context(S, room_id, th, RunContext(app, dev))
      [] op = "clear_context" -> clear_context(S, room_id, th)
      [] op = "get_default_engine" -> get_default_engine(S, room_id, th)
      [] op = "set_default_engine" -> set_default_engine(S, room_id, th, codex)
      [] op = "clear_default_engine" -> clear_default_engine(S, room_id, th)
      [] op = "get_trigger_mode" -> get_trigger_mode(S, room_id, th)
      [] op = "set_trigger_mode" -> set_trigger_mode(S, room_id, th, mentions)
      [] op = "clear_trigger_mode" -> clear_trigger_mode(S, room_id, th)
      [] op = "get_engine_override" -> get_engine_override(S, room_id, th, engine)
      [] op = "set_engine_override" ->
             set_engine_override(S, room_id, th, engine,
                                 EngineOverrides(modelA, high))
      [] op = "clear_engine_override" ->
             clear_engine_override(S, room_id, th, engine)

BlankKeys == {<<>>, blank, <<" ", " ">>}

(* A method called with an empty or blank thread root id. *)
BlankThread ==
    \E room_id \in Rooms, th \in BlankKeys, op \in ThreadMethods :
        /\ steps < MaxOps
        /\ ThreadQuery(op, room_id, th,
                       ThreadMethod(threadStore, op, room_id, th, codex))

(* A per-engine method called with an empty or blank engine id. *)
BlankEngine ==
    \E room_id \in Rooms, th \in ThreadRootInputs, e \in BlankKeys,
       op \in EngineMethods :
        /\ steps < MaxOps
        /\ ThreadQuery(op, room_id, th,
                       ThreadMethod(threadStore, op, room_id, th, e))

InitBlank == InitOn(ThreadSeeds, {EmptyRoomStore}, {FullConfig})

NextBlank ==
    \/ BlankThread
    \/ BlankEngine
    \/ SetContext
    \/ SetDefaultEngine
    \/ SetTriggerMode

SpecBlank == InitBlank /\ [][NextBlank]_vars

----------------------------------------------------------------------------
(* Properties of the resolutions *)

(* What the documents hold for the message, read off the documents. *)
StoredThread(msg) ==
    IF ~cfg.thread_state \/ msg.thread_root_event_id = None THEN NoneObj
    ELSE LookupThread(threadStore.mem.rooms, msg.room_id,
                      _normalize_text(msg.thread_root_event_id))

StoredRoom(msg) ==
    IF ~cfg.room_prefs \/ ~Has(roomStore.mem.rooms, msg.room_id) THEN NoneObj
    ELSE roomStore.mem.rooms[msg.room_id]

StoredDefaultEngine(entry) ==
    IF entry = NoneObj THEN None ELSE entry.default_engine

StoredTriggerMode(entry) ==
    IF entry = NoneObj THEN None ELSE entry.trigger_mode

StoredOverride(entry, engine) ==
    IF entry = NoneObj THEN EngineOverrides(None, None)
    ELSE IF ~Has(entry.engine_overrides, engine)
    THEN EngineOverrides(None, None)
    ELSE entry.engine_overrides[engine]

(* The first tier of <<tag, value>> pairs whose value is present. *)
FirstPresent(tiers) ==
    tiers[CHOOSE i \in 1..Len(tiers) :
              /\ tiers[i][2] # None
              /\ \A j \in 1..(i - 1) : tiers[j][2] = None]

EngineTiers(msg, context, explicit_engine) ==
    <<<<"directive", explicit_engine>>,
      <<"thread_default", StoredDefaultEngine(StoredThread(msg))>>,
      <<"room_default", StoredDefaultEngine(StoredRoom(msg))>>,
      <<"project_default", project_default_engine(context)>>,
      <<"global_default", default_engine>>>>

DirectiveInputs == {None, claude}

(* C1: for every message, ambient context and directive, engine resolution *)
(* returns the value of the first present tier in the order directive,     *)
(* thread default (messages with a thread root only), room default,        *)
(* project default, global default, and its source tag names that tier;    *)
(* /agent shows that engine under that tier's label.                       *)
C1_EnginePrecedence ==
    \A msg \in Messages, context \in AmbientInputs :
        /\ \A explicit_engine \in DirectiveInputs :
               LET top == FirstPresent(EngineTiers(msg, context, explicit_engine))
                   res == resolve_engine_for_message(
                              threadStore, roomStore, cfg, context,
                              explicit_engine, msg.room_id,
                              msg.thread_root_event_id).ret
               IN /\ res.engine = top[2]
                  /\ res.source = top[1]
        /\ LET top == FirstPresent(EngineTiers(msg, context, None))
               shown == _handle_agent_command(threadStore, roomStore, cfg, msg,
                                              <<>>, context).reply
           IN /\ shown.args.engine = top[2]
              /\ shown.args.source = ENGINE_SOURCE_LABELS[top[1]]

(* A message in a thread was resolved to the thread's default engine while *)
(* its room has a different default engine.                                *)
C1_Witness ==
    /\ last.op = "resolve_engine"
    /\ last.thread # None
    /\ last.obj.source = "thread_default"
    /\ last.obj.room_default # None
    /\ last.obj.room_default # last.obj.engine

(* The resolution of a directive-less message of thread th in room. *)
EngineOf(TS, room, th, context) ==
    resolve_engine_for_message(TS, roomStore, cfg, context, None, room, th).ret

(* The tier below the thread default for that message. *)
BelowThread(room, context) ==
    FirstPresent(<<<<"room_default",
                     StoredDefaultEngine(StoredRoom(Message(room, None)))>>,
                   <<"project_default", project_default_engine(context)>>,
                   <<"global_default", default_engine>>>>)

(* C2: once set_default_engine(R, T, "claude") has run on the thread       *)
(* store, a directive-less message in T resolves to claude with source     *)
(* thread_default; once clear_default_engine(R, T) has run, it resolves to *)
(* the room default if R has one, else the project default, else the       *)
(* global default, under that tier's tag.  Stated for the two calls made   *)
(* in any reachable state, and for every clear step taken.                 *)
C2_SetThenClearDefault ==
    /\ [](cfg.thread_state =>
            \A room \in Rooms, th \in ThreadRootInputs,
               context \in AmbientInputs :
                LET afterSet == set_default_engine(threadStore, room, th,
                                                   claude).store
                    afterClear == clear_default_engine(afterSet, room, th).store
                    first == EngineOf(afterSet, room, th, context)
                    second == EngineOf(afterClear, room, th, context)
                    below == BelowThread(room, context)
                IN /\ first.engine = claude
                   /\ first.source = "thread_default"
                   /\ second.source # "thread_default"
                   /\ second.source = below[1]
                   /\ second.engine = below[2])
    /\ [][last'.op = "clear_default_engine" =>
              \A context \in AmbientInputs :
                  LET res == resolve_engine_for_message(
                                 threadStore', roomStore', cfg', context, None,
                                 last'.room, last'.thread).ret
                  IN /\ res.source \in {"room_default", "project_default",
                                        "global_default"}
                     /\ res.thread_default = None]_vars

(* A default engine was set on a thread whose room has no default, and     *)
(* clear_default_engine then removed it: the message falls to the global   *)
(* default.                                                                *)
C2_Witness ==
    /\ steps = 2
    /\ last.op = "clear_default_engine"
    /\ last.wrote
    /\ StoredDefaultEngine(StoredRoom(Message(last.room, None))) = None
    /\ EngineOf(threadStore, last.room, last.thread, NoneObj).source
           = "global_default"

(* C3: the engine that resolution returns is a valid engine id, whatever   *)
(* store operations and commands ran before.                               *)
C3_AlwaysValidEngine ==
    \A msg \in Messages, context \in AmbientInputs,
       explicit_engine \in DirectiveInputs :
        resolve_engine_for_message(threadStore, roomStore, cfg, context,
                                   explicit_engine, msg.room_id,
                                   msg.thread_root_event_id).ret.engine
            \in EngineIdSet

(* The messages that belong to a thread. *)
ThreadMessages == {msg \in Messages : msg.thread_root_event_id # None}

(* What /model and /reasoning resolve for a field of engine's override: the *)
(* two scopes read by _read_overrides_for_engine, then precedence.          *)
OverrideOf(TS, RS, msg, engine, field) ==
    LET Pair(ov) == resolve_override_value(ov.ret[1], ov.ret[2], field)
    IN Pair(_read_overrides_for_engine(TS, RS, cfg, msg, engine))

(* The first present of the thread's and the room's stored value. *)
OverrideTiers(msg, engine, field) ==
    <<<<"thread_override",
        OverrideField(StoredOverride(StoredThread(msg),
                                     _normalize_engine_id(engine)), field)>>,
      <<"room_default",
        OverrideField(StoredOverride(StoredRoom(msg),
                                     _normalize_engine_id(engine)), field)>>,
      <<"default", <<>>>>>>

(* C4: with the thread override of an engine holding model "A" and the     *)
(* room override of the same engine holding model "B", a message in that   *)
(* thread resolves its model to "A" from the thread override; once the     *)
(* thread override is cleared it resolves to "B" from the room default;    *)
(* once the room override is cleared too, the value is absent and the      *)
(* source is default.  In every state the resolved model is the first      *)
(* present of the stored thread and room values, and /model shows it.      *)
C4_OverridePrecedence ==
    \A msg \in ThreadMessages, engine \in EngineInputs :
        /\ LET ts1 == set_engine_override(
                          threadStore, msg.room_id, msg.thread_root_event_id,
                          engine, EngineOverrides(modelA, None)).store
               rs1 == room_set_engine_override(
                          roomStore, msg.room_id, engine,
                          EngineOverrides(modelB, None)).store
               ts2 == clear_engine_override(
                          ts1, msg.room_id, msg.thread_root_event_id,
                          engine).store
               rs2 == room_clear_engine_override(rs1, msg.room_id,
                                                 engine).store
               both == OverrideOf(ts1, rs1, msg, engine, "model")
               roomOnly == OverrideOf(ts2, rs1, msg, engine, "model")
               neither == OverrideOf(ts2, rs2, msg, engine, "model")
           IN /\ both.value = modelA
              /\ both.source = "thread_override"
              /\ roomOnly.value = modelB
              /\ roomOnly.source = "room_default"
              /\ neither.value = None
              /\ neither.source = "default"
        /\ LET top == FirstPresent(OverrideTiers(msg, engine, "model"))
               res == OverrideOf(threadStore, roomStore, msg, engine, "model")
           IN /\ res.source = top[1]
              /\ res.value = IF top[1] = "default" THEN None ELSE top[2]
        /\ \A context \in AmbientInputs :
               LET shown == _handle_model_command(threadStore, roomStore, cfg,
                                                  msg, <<>>, context).reply
                   top == FirstPresent(OverrideTiers(msg, shown.args.engine,
                                                     "model"))
               IN /\ shown.args.source = OVERRIDE_SOURCE_LABELS[top[1]]
                  /\ shown.args.value = IF top[1] = "default"
                                        THEN default_text ELSE top[2]

(* The override of an engine was cleared on a thread that held model "A"   *)
(* while the room holds model "B" for that engine: the model now resolves  *)
(* to "B" from the room.                                                   *)
C4_Witness ==
    /\ last.op = "clear_engine_override"
    /\ last.wrote
    /\ LET res == OverrideOf(threadStore, roomStore,
                             Message(last.room, last.thread), claude, "model")
       IN /\ res.value = modelB
          /\ res.source = "room_default"
          /\ res.thread_value = None

(* C5: model and reasoning are resolved independently.  Wherever the       *)
(* thread override of an engine holds a model and no reasoning while the   *)
(* room override holds a reasoning, a message in the thread resolves its   *)
(* reasoning to the room's value from the room tier and its model to the   *)
(* thread's value from the thread tier; /reasoning shows the room's value. *)
C5_IndependentFields ==
    \A msg \in ThreadMessages, engine \in EngineInputs :
        /\ LET ts1 == set_engine_override(
                          threadStore, msg.room_id, msg.thread_root_event_id,
                          engine, EngineOverrides(modelA, None)).store
               rs1 == room_set_engine_override(
                          roomStore, msg.room_id, engine,
                          EngineOverrides(None, high)).store
               model == OverrideOf(ts1, rs1, msg, engine, "model")
               reasoning == OverrideOf(ts1, rs1, msg, engine, "reasoning")
           IN /\ model.value = modelA
              /\ model.source = "thread_override"
              /\ reasoning.value = high
              /\ reasoning.source = "room_default"
        /\ LET t == StoredOverride(StoredThread(msg),
                                   _normalize_engine_id(engine))
               r == StoredOverride(StoredRoom(msg),
                                   _normalize_engine_id(engine))
               model == OverrideOf(threadStore, roomStore, msg, engine,
                                   "model")
               reasoning == OverrideOf(threadStore, roomStore, msg, engine,
                                       "reasoning")
           IN (t.model # None /\ t.reasoning = None /\ r.reasoning # None) =>
                  /\ model.value = t.model
                  /\ model.source = "thread_override"
                  /\ reasoning.value = r.reasoning
                  /\ reasoning.source = "room_default"
        /\ \A context \in AmbientInputs :
               LET shown == _handle_reasoning_command(
                                threadStore, roomStore, cfg, msg, <<>>,
                                context).reply
                   t == StoredOverride(StoredThread(msg), shown.args.engine)
                   r == StoredOverride(StoredRoom(msg), shown.args.engine)
               IN (t.model # None /\ t.reasoning = None /\ r.reasoning # None)
                      => /\ shown.args.value = r.reasoning
                         /\ shown.args.source = "room default"
                         /\ shown.args.thread_value = none_text

(* /reasoning was shown in a thread whose override holds a model only      *)
(* while the room's override holds a reasoning level: the reply names the  *)
(* room's level under the room tier.                                       *)
C5_Witness ==
    /\ last.op = "/reasoning"
    /\ last.thread # None
    /\ last.obj.text = "reasoning"
    /\ last.obj.args.source = "room default"
    /\ last.obj.args.value = high
    /\ StoredOverride(StoredThread(Message(last.room, last.thread)),
                      last.obj.args.engine).model # None
    /\ StoredOverride(StoredThread(Message(last.room, last.thread)),
                      last.obj.args.engine).reasoning = None

TriggerTiers(msg) ==
    <<<<"thread override", StoredTriggerMode(StoredThread(msg))>>,
      <<"room default", StoredTriggerMode(StoredRoom(msg))>>,
      <<"default", all>>>>

(* C6: for a message in a thread the resolved trigger mode is the thread's *)
(* stored mode if set, else the room's stored mode if set, else "all"; for *)
(* a message outside a thread the thread tier is skipped; the result is    *)
(* "all" or "mentions"; /trigger shows that mode under that tier's label.  *)
C6_TriggerResolution ==
    \A msg \in Messages :
        LET top == FirstPresent(TriggerTiers(msg))
            res == resolve_trigger_mode(threadStore, roomStore, cfg,
                                        msg.room_id,
                                        msg.thread_root_event_id).ret
            shown == _handle_trigger_command(threadStore, roomStore, cfg, msg,
                                             <<>>).reply
        IN /\ res = top[2]
           /\ res \in {all, mentions}
           /\ msg.thread_root_event_id = None =>
                  res = FirstPresent(Tail(TriggerTiers(msg)))[2]
           /\ shown.args.mode = top[2]
           /\ shown.args.source = top[1]

(* A message in a thread was resolved to "mentions" from the thread's own  *)
(* mode while its room stores none.                                        *)
C6_Witness ==
    /\ last.op = "resolve_trigger_mode"
    /\ last.thread # None
    /\ last.obj.mode = mentions
    /\ StoredTriggerMode(StoredThread(Message(last.room, last.thread)))
           = mentions
    /\ StoredTriggerMode(StoredRoom(Message(last.room, None))) = None

(* The override resolution of a field as a handler's result. *)
OverrideResolved(ov, field) ==
    Handled(ov.ts, ov.rs, resolve_override_value(ov.ret[1], ov.ret[2], field),
            <<>>, FALSE)

ReadOnlyKinds ==
    {"resolve_engine", "resolve_model", "resolve_reasoning",
     "resolve_trigger_mode", "/agent", "/model", "/reasoning", "/trigger",
     "/ctx"}

(* One of the three resolutions or of the five show forms, run on the      *)
(* stores TS and RS.                                                       *)
ReadOnlyRun(kind, TS, RS, msg, context, engine) ==
    CASE kind = "resolve_engine" ->
             FromResolved(resolve_engine_for_message(
                              TS, RS, cfg, context,
                              IF engine = codex THEN None ELSE claude,
                              msg.room_id, msg.thread_root_event_id))
      [] kind = "resolve_model" ->
             OverrideResolved(_read_overrides_for_engine(TS, RS, cfg, msg,
                                                         engine), "model")
      [] kind = "resolve_reasoning" ->
             OverrideResolved(_read_overrides_for_engine(TS, RS, cfg, msg,
                                                         engine), "reasoning")
      [] kind = "resolve_trigger_mode" ->
             ModeResolved(resolve_trigger_mode(TS, RS, cfg, msg.room_id,
                                               msg.thread_root_event_id))
      [] kind = "/agent" ->
             _handle_agent_command(TS, RS, cfg, msg, <<>>, context)
      [] kind = "/model" ->
             _handle_model_command(TS, RS, cfg, msg, <<tok_show>>, context)
      [] kind = "/reasoning" ->
             _handle_reasoning_command(TS, RS, cfg, msg, <<>>, context)
      [] kind = "/trigger" ->
             _handle_trigger_command(TS, RS, cfg, msg, <<tok_show>>)
      [] kind = "/ctx" ->
             _handle_ctx_command(TS, RS, cfg, msg, <<>>, context)

(* C7: engine, override and trigger-mode resolution and the show forms of  *)
(* /agent, /model, /reasoning, /trigger and /ctx leave the thread store    *)
(* and the room store unchanged, in memory and on disk, make no mutating   *)
(* store call and write no file; run again on the stores they leave, they  *)
(* return the same result and leave the same stores.                       *)
C7_ReadOnlyResolution ==
    \A msg \in Messages, context \in AmbientInputs, engine \in EngineInputs,
       kind \in ReadOnlyKinds :
        LET Twice(h, again) ==
                /\ h.ts.mem = threadStore.mem
                /\ h.ts.disk = threadStore.disk
                /\ h.rs.mem = roomStore.mem
                /\ h.rs.disk = roomStore.disk
                /\ h.calls = <<>>
                /\ ~h.wrote
                /\ again.reply = h.reply
                /\ again.ts.mem = threadStore.mem
                /\ again.ts.disk = threadStore.disk
                /\ again.rs.mem = roomStore.mem
                /\ again.rs.disk = roomStore.disk
            Once(h) ==
                Twice(h, ReadOnlyRun(kind, h.ts, h.rs, msg, context, engine))
        IN Once(ReadOnlyRun(kind, threadStore, roomStore, msg, context, engine))

(* /model was shown in a thread after an earlier step wrote a store: the   *)
(* reply carries a thread override, and the show wrote nothing.            *)
C7_Witness ==
    /\ steps = 2
    /\ last.op = "/model"
    /\ last.obj.text = "model"
    /\ last.obj.args.thread_value # none_text
    /\ ~last.wrote
    /\ threadStore.disk # NoFile
    /\ threadStore.disk = threadStore.mem

----------------------------------------------------------------------------
(* Properties of the thread store *)

ThreadKeysOf(rooms) ==
    UNION {{<<room, th>> : th \in DOMAIN rooms[room]} : room \in DOMAIN rooms}

AllThreadKeys == Rooms \X {_normalize_text(th) : th \in ThreadRootInputs}

EntryHasData(e) ==
    \/ e.context_project # None
    \/ e.context_branch # None
    \/ e.default_engine # None
    \/ e.trigger_mode # None
    \/ DOMAIN e.engine_overrides # {}
    \/ DOMAIN e.sessions # {}

NoResidue(rooms) ==
    \A room \in DOMAIN rooms :
        /\ DOMAIN rooms[room] # {}
        /\ \A th \in DOMAIN rooms[room] : EntryHasData(rooms[room][th])

(* The entry at (room, th) holds exactly the one field named. *)
OnlyField(e, f) ==
    /\ (f = "context") = (e.context_project # None \/ e.context_branch # None)
    /\ (f = "default_engine") = (e.default_engine # None)
    /\ (f = "trigger_mode") = (e.trigger_mode # None)
    /\ (f = "sessions") = (DOMAIN e.sessions # {})
    /\ DOMAIN e.engine_overrides = {}

(* After the clear, the thread is gone, and so is the room if that thread  *)
(* was its only one.                                                       *)
Pruned(before, after, room, th) ==
    /\ <<room, th>> \notin ThreadKeysOf(after)
    /\ (DOMAIN before[room] = {th}) => (room \notin DOMAIN after)
    /\ (DOMAIN before[room] # {th}) => (room \in DOMAIN after)

(* C8: at every operation boundary no thread entry of the thread store has *)
(* all of its fields absent and no room maps to an empty thread map, in    *)
(* memory and on disk; and clearing the only field of a thread removes the *)
(* thread, and the room with it when it was the room's only thread.        *)
C8_TwoLevelPruning ==
    /\ NoResidue(threadStore.mem.rooms)
    /\ threadStore.disk # NoFile => NoResidue(threadStore.disk.rooms)
    /\ \A k \in ThreadKeysOf(threadStore.mem.rooms) :
           LET before == threadStore.mem.rooms
               e == before[k[1]][k[2]]
               After(r) == r.store.disk.rooms
           IN /\ OnlyField(e, "context") =>
                     Pruned(before, After(clear_context(threadStore, k[1], k[2])),
                            k[1], k[2])
              /\ OnlyField(e, "default_engine") =>
                     Pruned(before,
                            After(clear_default_engine(threadStore, k[1], k[2])),
                            k[1], k[2])
              /\ OnlyField(e, "trigger_mode") =>
                     Pruned(before,
                            After(clear_trigger_mode(threadStore, k[1], k[2])),
                            k[1], k[2])
              /\ OnlyField(e, "sessions") =>
                     Pruned(before, After(clear_sessions(threadStore, k[1], k[2])),
                            k[1], k[2])
              /\ \A engine \in DOMAIN e.engine_overrides :
                     (/\ DOMAIN e.engine_overrides = {engine}
                      /\ ~EntryHasData([e EXCEPT !.engine_overrides = EmptyDict]))
                     => Pruned(before,
                               After(clear_engine_override(threadStore, k[1],
                                                           k[2], engine)),
                               k[1], k[2])

(* A default engine was set on the only thread of an empty store and then  *)
(* cleared: the document is empty again.                                   *)
C8_Witness ==
    /\ steps = 2
    /\ last.op = "clear_default_engine"
    /\ last.wrote
    /\ threadStore.mem.rooms = EmptyDict
    /\ threadStore.disk = threadStore.mem


OtherFields(e) ==
    <<e.context_project, e.context_branch, e.default_engine, e.trigger_mode,
      e.engine_overrides>>

(* C9: clear_sessions(room, thread) removes every resume token of that     *)
(* thread and leaves its context, default engine, trigger mode and engine  *)
(* overrides as they were; the thread entry is removed exactly when all    *)
(* those other fields are absent; every other thread and room is unchanged.*)
C9_ClearSessionsFrame ==
    \A room \in Rooms, th \in ThreadRootInputs :
        LET key == _normalize_text(th)
            before == threadStore.mem.rooms
            r == clear_sessions(threadStore, room, th)
            after == r.store.mem.rooms
            old == LookupThread(before, room, key)
            new == LookupThread(after, room, key)
        IN /\ r.wrote => r.store.disk = r.store.mem
           /\ ~r.wrote => r.store = threadStore
           /\ \A k \in AllThreadKeys :
                  k # <<room, key>> =>
                      LookupThread(after, k[1], k[2])
                          = LookupThread(before, k[1], k[2])
           /\ old = NoneObj => new = NoneObj
           /\ old # NoneObj =>
                  /\ (new = NoneObj)
                         = ~EntryHasData([old EXCEPT !.sessions = EmptyDict])
                  /\ new # NoneObj =>
                         /\ new.sessions = EmptyDict
                         /\ OtherFields(new) = OtherFields(old)
                  /\ \A e \in EngineInputs :
                         get_session_resume(r.store, room, th, e).ret = NoneObj

(* clear_sessions ran on a thread that keeps its default engine and its    *)
(* override, next to another thread of the room and another room.          *)
C9_Witness ==
    /\ last.op = "clear_sessions"
    /\ last.wrote
    /\ steps = 1
    /\ LET e == LookupThread(threadStore.mem.rooms, last.room,
                             _normalize_text(last.thread))
       IN /\ e # NoneObj
          /\ e.sessions = EmptyDict
          /\ e.default_engine = claude
          /\ DOMAIN e.engine_overrides = {claude}
    /\ Cardinality(ThreadKeysOf(threadStore.mem.rooms)) = 3

GetOps ==
    {"get_session_resume", "get_context", "get_default_engine",
     "get_trigger_mode", "get_engine_override"}

SetOps ==
    {"set_session_resume", "set_context", "set_default_engine",
     "set_trigger_mode", "set_engine_override"}

Unchanged(r) == r.store = threadStore /\ ~r.wrote

(* C10: no get_* operation, and no clear_* operation on a thread that has  *)
(* no entry, adds a room key or thread key to the document or writes the   *)
(* file; a key appears only in a step of a set operation, and a set with   *)
(* an absent value on a thread without entry adds none.                    *)
C10_NoMaterialization ==
    /\ [](\A room \in Rooms, th \in ThreadRootInputs :
            LET absent == LookupThread(threadStore.mem.rooms, room,
                                       _normalize_text(th)) = NoneObj
            IN /\ Unchanged(get_context(threadStore, room, th))
               /\ Unchanged(get_default_engine(threadStore, room, th))
               /\ Unchanged(get_trigger_mode(threadStore, room, th))
               /\ \A e \in EngineInputs :
                      /\ Unchanged(get_session_resume(threadStore, room, th, e))
                      /\ Unchanged(get_engine_override(threadStore, room, th, e))
               /\ absent =>
                      /\ Unchanged(clear_sessions(threadStore, room, th))
                      /\ Unchanged(clear_context(threadStore, room, th))
                      /\ Unchanged(clear_default_engine(threadStore, room, th))
                      /\ Unchanged(clear_trigger_mode(threadStore, room, th))
                      /\ Unchanged(set_default_engine(threadStore, room, th, <<>>))
                      /\ Unchanged(set_context(threadStore, room, th,
                                               RunContext(blank, dev)))
                      /\ Unchanged(set_trigger_mode(threadStore, room, th, all))
                      /\ \A e \in EngineInputs :
                             /\ Unchanged(clear_engine_override(threadStore,
                                                                room, th, e))
                             /\ Unchanged(set_engine_override(
                                    threadStore, room, th, e,
                                    EngineOverrides(blank, None))))
    /\ [][ThreadKeysOf(threadStore'.mem.rooms)
              \subseteq ThreadKeysOf(threadStore.mem.rooms)
          \/ last'.op \in SetOps]_vars

(* A get and then a clear ran on a store that stays empty. *)
C10_Witness ==
    /\ steps = 2
    /\ last.op = "clear_engine_override"
    /\ ~last.wrote
    /\ threadStore = EmptyThreadStore

----------------------------------------------------------------------------
(* Properties of persistence *)

(* The persisted document equals the in-memory one; a store that never    *)
(* wrote has no file and holds the empty document.                        *)
InSync(S) ==
    IF S.disk = NoFile THEN S.mem = _new_state ELSE S.disk = S.mem

(* C11: when an operation of the thread store returns, the persisted      *)
(* document equals the in-memory document: every operation that changed   *)
(* the document saved it before returning.                                *)
C11_NoWriteBatching ==
    /\ InSync(threadStore)
    /\ last.wrote => threadStore.disk = threadStore.mem

(* set_session_resume stored a token as the first operation of a run: the *)
(* file holds the document with the token.                                *)
C11_Witness ==
    /\ last.op = "set_session_resume"
    /\ last.wrote
    /\ steps = 1
    /\ threadStore.disk # NoFile
    /\ threadStore.disk.rooms # EmptyDict
    /\ \E room \in DOMAIN threadStore.disk.rooms :
           \E th \in DOMAIN threadStore.disk.rooms[room] :
               threadStore.disk.rooms[room][th].sessions # EmptyDict

(* The entry of thread th of room in the in-memory document, or NoneObj. *)
EntryOf(room, th) ==
    LookupThread(threadStore.mem.rooms, room, _normalize_text(th))

(* The operation's outcome r wrote nothing and left the store as it is. *)
NoWriteNoChange(r) ==
    /\ ~r.wrote
    /\ r.store.mem = threadStore.mem
    /\ r.store.disk = threadStore.disk

(* C12: clearing a field that is already absent, whether the thread entry *)
(* does not exist or exists because of other fields, performs no          *)
(* persisted write and leaves the document unchanged.                     *)
C12_IdempotentClear ==
    \A room \in Rooms, th \in ThreadRootInputs :
        LET e == EntryOf(room, th)
        IN /\ (e = NoneObj \/ e.default_engine = None) =>
                  NoWriteNoChange(clear_default_engine(threadStore, room, th))
           /\ (e = NoneObj \/ e.trigger_mode = None) =>
                  NoWriteNoChange(clear_trigger_mode(threadStore, room, th))
           /\ (e = NoneObj \/ e.context_project = None) =>
                  NoWriteNoChange(clear_context(threadStore, room, th))
           /\ (e = NoneObj \/ e.sessions = EmptyDict) =>
                  NoWriteNoChange(clear_sessions(threadStore, room, th))
           /\ \A engine \in EngineInputs :
                  (e = NoneObj
                   \/ ~Has(e.engine_overrides, _normalize_engine_id(engine)))
                      => NoWriteNoChange(clear_engine_override(
                                             threadStore, room, th, engine))

----------------------------------------------------------------------------
(* Properties of normalization *)

(* Every thread entry of the in-memory document. *)
AllEntries ==
    {threadStore.mem.rooms[k[1]][k[2]] : k \in ThreadKeysOf(threadStore.mem.rooms)}

Trimmed(id) == id # <<>> /\ Strip(id) = id

TrimmedLower(id) == Trimmed(id) /\ Lower(id) = id

(* An engine argument that is empty or only whitespace. *)
BlankEngines == {<<>>, blank, <<" ", " ">>}

(* C13 as stated: every engine identifier a store holds, the default      *)
(* engine included, is trimmed and lowercase.                             *)
C13_EngineIdsLowercase ==
    \A e \in AllEntries :
        /\ e.default_engine # None => TrimmedLower(e.default_engine)
        /\ \A k \in DOMAIN e.engine_overrides : TrimmedLower(k)
        /\ \A k \in DOMAIN e.sessions : TrimmedLower(k)

(* C13, amended: every key of engine_overrides and of sessions is trimmed *)
(* and lowercase; a stored default engine is trimmed and non-empty but    *)
(* keeps its letter case; an empty or whitespace-only engine id is        *)
(* absent: it stores nothing, reads as None, and as a default it clears.  *)
C13_EngineIdsNormalized ==
    /\ \A e \in AllEntries :
           /\ e.default_engine # None => Trimmed(e.default_engine)
           /\ \A k \in DOMAIN e.engine_overrides : TrimmedLower(k)
           /\ \A k \in DOMAIN e.sessions : TrimmedLower(k)
    /\ \A room \in Rooms, th \in ThreadRootInputs, b \in BlankEngines :
           /\ \A ov \in OverrideInputs :
                  NoWriteNoChange(set_engine_override(threadStore, room, th,
                                                      b, ov))
           /\ \A token \in ResumeInputs :
                  NoWriteNoChange(set_session_resume(
                                      threadStore, room, th,
                                      ResumeToken(b, token.value)))
           /\ get_engine_override(threadStore, room, th, b).ret = NoneObj
           /\ get_session_resume(threadStore, room, th, b).ret = NoneObj
           /\ set_default_engine(threadStore, room, th, b).store
                  = clear_default_engine(threadStore, room, th).store
           /\ get_default_engine(
                  set_default_engine(threadStore, room, th, b).store,
                  room, th).ret = None

(* An override was stored under an engine id given in capitals with a     *)
(* trailing blank, in a document that also holds a default engine written *)
(* with a capital letter.                                                 *)
C13_Witness ==
    /\ last.op = "set_engine_override"
    /\ last.wrote
    /\ \E e \in AllEntries : claude \in DOMAIN e.engine_overrides
    /\ \E e \in AllEntries : e.default_engine = opus

paddedCLAUDE == <<" "," ","C","L","A","U","D","E"," "," ">>

CLAUDE == <<"C","L","A","U","D","E">>

(* The default engine read back after set_default_engine with engine. *)
DefaultAfterSet(room, th, engine) ==
    get_default_engine(set_default_engine(threadStore, room, th, engine).store,
                       room, th).ret

(* C14: set_default_engine trims the surrounding whitespace and keeps the *)
(* letter case: after set_default_engine with "  CLAUDE  " the getter     *)
(* returns "CLAUDE"; with None, an empty or a blank string it clears the  *)
(* value and the getter returns None.  Every set_default_engine step      *)
(* taken leaves the getter returning its argument trimmed, case kept.     *)
C14_DefaultEngineTrimmedCaseKept ==
    /\ \A room \in Rooms, th \in ThreadRootInputs :
           /\ DefaultAfterSet(room, th, paddedCLAUDE) = CLAUDE
           /\ DefaultAfterSet(room, th, paddedOpus) = opus
           /\ DefaultAfterSet(room, th, None) = None
           /\ DefaultAfterSet(room, th, <<>>) = None
           /\ DefaultAfterSet(room, th, blank) = None
    /\ last.op = "set_default_engine" =>
           get_default_engine(threadStore, last.room, last.thread).ret
               \in {codex, opus, None}

(* set_default_engine ran with " Opus " and wrote: the getter returns     *)
(* "Opus".                                                                *)
C14_Witness ==
    /\ last.op = "set_default_engine"
    /\ last.wrote
    /\ get_default_engine(threadStore, last.room, last.thread).ret = opus

(* The engine overrides of the thread store on their own. *)
InitKeys == InitOn(ThreadSeeds, {EmptyRoomStore}, {FullConfig})

NextKeys ==
    \/ GetEngineOverride
    \/ SetEngineOverride
    \/ ClearEngineOverride

SpecKeys == InitKeys /\ [][NextKeys]_vars

(* Spellings of one engine id that differ in letter case and in           *)
(* surrounding whitespace.                                                *)
EngineSpellings ==
    {claude, <<"C","L","A","U","D","E"," ">>, <<" ","C","l","a","u","d","e">>}

(* C15: for engine strings that differ only in letter case or surrounding *)
(* whitespace, set_engine_override under one followed by                  *)
(* get_engine_override under the other returns the override that was set, *)
(* and clear_engine_override under one removes the override stored under  *)
(* the other.                                                             *)
C15_OverrideKeyCaseFolded ==
    \A room \in Rooms, th \in ThreadRootInputs, ov \in OverrideInputs,
       e1 \in EngineSpellings, e2 \in EngineSpellings :
        LET stored == set_engine_override(threadStore, room, th, e1, ov).store
            cleared == clear_engine_override(stored, room, th, e2).store
        IN /\ get_engine_override(stored, room, th, e2).ret
                  = normalize_overrides(ov)
           /\ get_engine_override(stored, room, th, e2).ret
                  = get_engine_override(stored, room, th, e1).ret
           /\ get_engine_override(cleared, room, th, e1).ret = NoneObj
           /\ get_engine_override(cleared, room, th, e2).ret = NoneObj

(* get_engine_override, called with the engine id in capitals, returned   *)
(* the override stored under the lowercase key.                           *)
C15_Witness ==
    /\ last.op = "get_engine_override"
    /\ last.obj = EngineOverrides(modelA, None)
    /\ LET e == EntryOf(last.room, last.thread)
       IN /\ e # NoneObj
          /\ DOMAIN e.engine_overrides = {claude}

(* Texts other than "mentions". *)
OtherModes ==
    {all, <<"M","E","N","T","I","O","N","S">>, <<"o","f","f">>, <<>>, blank}

(* C16: a stored trigger mode is absent or exactly "mentions".            *)
(* set_trigger_mode with "all" or any other text than "mentions" leaves   *)
(* the document that clearing the mode leaves, which for a thread that    *)
(* had no mode is the document as it was, and the getter then returns     *)
(* None; setting "mentions" on a thread without an entry and then such a  *)
(* text leaves no entry behind.                                           *)
C16_TriggerModeCollapse ==
    /\ \A e \in AllEntries : e.trigger_mode \in {None, mentions}
    /\ \A room \in Rooms, th \in ThreadRootInputs, m \in OtherModes :
           LET other == set_trigger_mode(threadStore, room, th, m).store
               cleared == clear_trigger_mode(threadStore, room, th).store
               e == EntryOf(room, th)
               twice == set_trigger_mode(
                            set_trigger_mode(threadStore, room, th,
                                             mentions).store,
                            room, th, m).store
           IN /\ other.mem = cleared.mem
              /\ other.disk = cleared.disk
              /\ get_trigger_mode(other, room, th).ret = None
              /\ (e = NoneObj \/ e.trigger_mode = None) =>
                     /\ other.mem = threadStore.mem
                     /\ twice.mem = threadStore.mem
              /\ twice.mem = cleared.mem

(* set_trigger_mode with a text other than "mentions" ran on a thread     *)
(* whose only field was its trigger mode: the entry is gone.              *)
C16_Witness ==
    /\ last.op = "set_trigger_mode"
    /\ last.wrote
    /\ EntryOf(last.room, last.thread) = NoneObj


----------------------------------------------------------------------------
(* Properties of the override commands *)

(* The overrides map of the scope a message's command writes to: the       *)
(* thread's when the message is in a thread, the room's otherwise.         *)
ScopeOverrides(TS, RS, msg) ==
    LET thread_root == _thread_scope(msg, cfg)
        entry == IF thread_root # None
                 THEN LookupThread(TS.mem.rooms, msg.room_id,
                                   _normalize_text(thread_root))
                 ELSE IF Has(RS.mem.rooms, msg.room_id)
                 THEN RS.mem.rooms[msg.room_id] ELSE NoneObj
    IN IF entry = NoneObj THEN EmptyDict ELSE entry.engine_overrides

ScopeOverride(TS, RS, msg, engine) ==
    IF Has(ScopeOverrides(TS, RS, msg), engine)
    THEN ScopeOverrides(TS, RS, msg)[engine]
    ELSE EngineOverrides(None, None)

(* The scope's override of engine after a handler ran holds model and      *)
(* reasoning, and is stored exactly when one of the two is present.        *)
OverrideAfter(h, msg, engine, model, reasoning) ==
    /\ ScopeOverride(h.ts, h.rs, msg, engine) = EngineOverrides(model, reasoning)
    /\ Has(ScopeOverrides(h.ts, h.rs, msg), engine)
           <=> (model # None \/ reasoning # None)

(* C17: /model set and /model clear leave the reasoning level stored for   *)
(* the engine in the scope as it was, /reasoning set and /reasoning clear  *)
(* leave the model as it was, and the override of the engine stays stored  *)
(* unless both of its fields are absent.                                   *)
C17_FieldByFieldMerge ==
    \A msg \in Messages, engine \in EngineIdSet, context \in AmbientInputs :
        LET was == ScopeOverride(threadStore, roomStore, msg, engine)
            Model(tokens) ==
                _handle_model_command(threadStore, roomStore, cfg, msg,
                                      tokens, context)
            Reasoning(tokens) ==
                _handle_reasoning_command(threadStore, roomStore, cfg, msg,
                                          tokens, context)
        IN /\ OverrideAfter(Model(<<tok_set, engine, modelB>>), msg, engine,
                            modelB, was.reasoning)
           /\ OverrideAfter(Model(<<tok_clear, engine>>), msg, engine,
                            None, was.reasoning)
           /\ supports_reasoning(engine) =>
                  OverrideAfter(Reasoning(<<tok_set, engine, low>>), msg,
                                engine, was.model, low)
           /\ OverrideAfter(Reasoning(<<tok_clear, engine>>), msg, engine,
                            was.model, None)

(* /model set ran for an engine whose override in the scope held a         *)
(* reasoning level: the override now holds the new model and that level.   *)
C17_Witness ==
    /\ last.op = "/model"
    /\ last.wrote
    /\ last.obj.text = "model override set"
    /\ ScopeOverride(threadStore, roomStore, Message(last.room, last.thread),
                     last.obj.args.engine).model = last.obj.args.value
    /\ ScopeOverride(threadStore, roomStore, Message(last.room, last.thread),
                     last.obj.args.engine).reasoning # None


----------------------------------------------------------------------------
(* Properties of the lock *)

(* The store after the calls ran one after the other, each as a whole. *)
RECURSIVE Serial(_, _)
Serial(S, ops) ==
    IF ops = <<>> THEN S ELSE Serial(RunOp(S, Head(ops)).store, Tail(ops))

UnderLock == {i \in Tasks : sched.pc[i] \in {"reload", "mutate", "save"}}

(* C18: at most one task is between taking and releasing the store's lock, *)
(* and it is the holder.  While the lock is free the store is what the     *)
(* calls that took it leave when run serially in the order they took it;   *)
(* while it is held, the store is what the earlier calls left serially,    *)
(* advanced by the holder's own reload check, mutation and save only.      *)
C18_MutualExclusionSerial ==
    /\ Cardinality(UnderLock) <= 1
    /\ \A i \in UnderLock : sched.holder = i
    /\ sched.holder = 0 => threadStore = Serial(sched.start, sched.order)
    /\ sched.holder # 0 =>
           LET i == sched.holder
               before == Serial(sched.start,
                                SubSeq(sched.order, 1, Len(sched.order) - 1))
               loaded == _reload_locked_if_needed(before)
               after == Serial(sched.start, sched.order)
           IN /\ sched.order[Len(sched.order)] = sched.op[i]
              /\ sched.pc[i] = "reload" => threadStore = before
              /\ sched.pc[i] = "mutate" => threadStore = loaded
              /\ sched.pc[i] = "save" =>
                     /\ threadStore.mem = after.mem
                     /\ threadStore.disk = before.disk

(* Three calls went through the lock; the first and the last set the same  *)
(* session to different values, and the file holds the last one's.         *)
C18_Witness ==
    /\ \A i \in Tasks : sched.pc[i] = "done"
    /\ Len(sched.order) = 3
    /\ sched.order[1] = Op("set_session_resume", r1, t1, ResumeToken(codex, s1))
    /\ sched.order[3].op = "set_session_resume"
    /\ sched.order[3] # sched.order[1]
    /\ threadStore.disk # NoFile
    /\ LookupThread(threadStore.disk.rooms, r1, t1).sessions[codex]
           = sched.order[3].arg.value


----------------------------------------------------------------------------
(* Properties of the reload check *)

(* A store that has just loaded the file S has. *)
OnDisk(S) ==
    [mem |-> IF S.disk = NoFile THEN _new_state ELSE S.disk,
     disk |-> S.disk, loaded |-> S.disk]

(* The call's result r on the store equals its result f on a store that    *)
(* has just loaded the file: same return value, same file afterwards, and  *)
(* when it wrote, a file that keeps every entry of other threads.          *)
AsReloaded(r, f, room, th) ==
    /\ r.ret = f.ret
    /\ r.store.disk = f.store.disk
    /\ r.wrote = f.wrote
    /\ r.wrote =>
           /\ r.store.mem = r.store.disk
           /\ \A k \in ThreadKeysOf(threadStore.disk.rooms) :
                  k # <<room, _normalize_text(th)>> =>
                      LookupThread(r.store.disk.rooms, k[1], k[2])
                          = threadStore.disk.rooms[k[1]][k[2]]

(* C19: when the file was written from outside since the store last       *)
(* loaded or saved it, every store method works on the file's content: a   *)
(* getter returns what the file holds, and a setter writes its change into *)
(* the file's content, leaving the entries of other threads in the file as *)
(* they were written.                                                      *)
C19_StalenessAwareReload ==
    (threadStore.disk # threadStore.loaded /\ threadStore.disk # NoFile) =>
        \A room \in Rooms, th \in ThreadRootInputs :
            LET S == threadStore
                F == OnDisk(threadStore)
            IN /\ \A e \in EngineInputs :
                      /\ AsReloaded(get_session_resume(S, room, th, e),
                                    get_session_resume(F, room, th, e), room, th)
                      /\ AsReloaded(get_engine_override(S, room, th, e),
                                    get_engine_override(F, room, th, e), room, th)
                      /\ AsReloaded(clear_engine_override(S, room, th, e),
                                    clear_engine_override(F, room, th, e),
                                    room, th)
                      /\ \A o \in OverrideInputs :
                             AsReloaded(set_engine_override(S, room, th, e, o),
                                        set_engine_override(F, room, th, e, o),
                                        room, th)
               /\ \A e \in DefaultEngineInputs :
                      AsReloaded(set_default_engine(S, room, th, e),
                                 set_default_engine(F, room, th, e), room, th)
               /\ \A token \in ResumeInputs :
                      AsReloaded(set_session_resume(S, room, th, token),
                                 set_session_resume(F, room, th, token),
                                 room, th)
               /\ \A context \in ContextInputs \cup {NoneObj} :
                      AsReloaded(set_context(S, room, th, context),
                                 set_context(F, room, th, context), room, th)
               /\ \A mode \in ModeInputs :
                      AsReloaded(set_trigger_mode(S, room, th, mode),
                                 set_trigger_mode(F, room, th, mode), room, th)
               /\ AsReloaded(get_default_engine(S, room, th),
                             get_default_engine(F, room, th), room, th)
               /\ AsReloaded(get_context(S, room, th),
                             get_context(F, room, th), room, th)
               /\ AsReloaded(get_trigger_mode(S, room, th),
                             get_trigger_mode(F, room, th), room, th)
               /\ AsReloaded(clear_sessions(S, room, th),
                             clear_sessions(F, room, th), room, th)
               /\ AsReloaded(clear_default_engine(S, room, th),
                             clear_default_engine(F, room, th), room, th)
               /\ AsReloaded(clear_trigger_mode(S, room, th),
                             clear_trigger_mode(F, room, th), room, th)

(* set_default_engine wrote thread $1 of room !r1 after the file had been  *)
(* written from outside: the file holds the new default and still holds    *)
(* the session "x" of thread $2 of room !r2 that only the outside wrote.   *)
C19_Witness ==
    /\ last.op = "set_default_engine"
    /\ last.wrote
    /\ last.room = r1
    /\ last.thread = t1
    /\ LookupThread(threadStore.disk.rooms, r1, t1) # NoneObj
    /\ LookupThread(threadStore.disk.rooms, r1, t1).default_engine
           = <<"O","p","u","s">>
    /\ LookupThread(threadStore.disk.rooms, r2, t2) # NoneObj
    /\ Has(LookupThread(threadStore.disk.rooms, r2, t2).sessions, codex)
    /\ LookupThread(threadStore.disk.rooms, r2, t2).sessions[codex] = <<"x">>


----------------------------------------------------------------------------
(* Properties of failing writes *)

C21_FailedChangeNotObservable ==
    last.obj = OSError =>
        \A room \in Rooms, th \in ThreadRootInputs :
            /\ get_default_engine(threadStore, room, th).ret
                   = get_default_engine(OnDisk(threadStore), room, th).ret
            /\ \A e \in EngineInputs :
                   get_session_resume(threadStore, room, th, e).ret
                       = get_session_resume(OnDisk(threadStore), room, th, e).ret


----------------------------------------------------------------------------
(* Properties of open *)

(* C22: a store whose file does not parse never holds a document, its open *)
(* ends in the fatal state, and no step changes the file.                  *)
C22_MalformedIsFatal ==
    [][/\ threadStore.disk = Malformed =>
              /\ threadStore'.disk = Malformed
              /\ threadStore'.mem \in {Closed, Fatal}
              /\ last'.op = "open_thread_state" => threadStore'.mem = Fatal
       /\ roomStore.disk = Malformed =>
              /\ roomStore'.disk = Malformed
              /\ roomStore'.mem \in {Closed, Fatal}
              /\ last'.op = "open_room_prefs" => roomStore'.mem = Fatal]_vars

(* The room store was opened on a file that does not parse: the open was   *)
(* fatal, and the file is as it was.                                       *)
C22_Witness ==
    /\ last.op = "open_room_prefs"
    /\ last.obj = FatalError
    /\ roomStore.mem = Fatal
    /\ roomStore.disk = Malformed


(* The versions from v up to the one before c, in order. *)
Chain(v, c) == [i \in 1..(c - v) |-> v + i - 1]

(* What open does on a file, for a store of the kind with current version  *)
(* c: an absent file gives the empty document at c; an older file whose    *)
(* steps all exist is migrated by exactly these steps in order and the     *)
(* result, at version c, is the file afterwards; with a step missing the   *)
(* open is fatal and the file is as it was.                                *)
OpensAsSpecified(kind, file, c, factory) ==
    LET o == open_store(kind, file, c, factory)
    IN /\ file = NoFile =>
              /\ o.status = "ok"
              /\ o.store.mem = factory
              /\ o.store.mem.version = c
              /\ o.store.mem.rooms = EmptyDict
       /\ (file # NoFile /\ file # Malformed /\ file.version < c) =>
              IF \A v \in file.version..(c - 1) : v \in migrations(kind)
              THEN /\ o.status = "ok"
                   /\ o.applied = Chain(file.version, c)
                   /\ o.store.mem.version = c
                   /\ o.store.disk = o.store.mem
                   /\ o.wrote
              ELSE /\ o.status = "fatal"
                   /\ o.store.disk = file
                   /\ o.store.mem = Fatal
                   /\ ~o.wrote

FlatRooms(file) ==
    IF file = NoFile \/ file = Malformed THEN {}
    ELSE {r \in DOMAIN file.rooms : "flat" \in DOMAIN file.rooms[r]}

----------------------------------------------------------------------------
(* Properties of reads *)

(* C25: a getter whose field holds a value of the wrong JSON type returns  *)
(* absent and does not raise, an override with one ill-typed field is      *)
(* returned without that field, and the getters of the well-typed fields   *)
(* of the entry return what is stored.                                     *)
C25_GracefulReads ==
    LET e == EntryOf(r1, t1)
    IN e # NoneObj =>
        /\ get_default_engine(threadStore, r1, t1).ret
               = IF IsStr(e.default_engine) THEN e.default_engine ELSE None
        /\ get_trigger_mode(threadStore, r1, t1).ret
               = IF IsStr(e.trigger_mode) THEN e.trigger_mode ELSE None
        /\ get_context(threadStore, r1, t1).ret
               = IF ~IsStr(e.context_project) THEN NoneObj
                 ELSE RunContext(e.context_project,
                                 IF IsStr(e.context_branch)
                                 THEN e.context_branch ELSE None)
        /\ get_engine_override(threadStore, r1, t1, claude).ret
               = IF ~IsDict(e.engine_overrides) THEN NoneObj
                 ELSE IF ~IsDictValue(e.engine_overrides[claude]) THEN NoneObj
                 ELSE EngineOverrides(
                          IF IsStr(e.engine_overrides[claude].model)
                          THEN e.engine_overrides[claude].model ELSE None,
                          IF IsStr(e.engine_overrides[claude].reasoning)
                          THEN e.engine_overrides[claude].reasoning ELSE None)
        /\ get_session_resume(threadStore, r1, t1, codex).ret
               = IF ~IsDict(e.sessions) THEN NoneObj
                 ELSE IF ~IsStr(e.sessions[codex]) THEN NoneObj
                 ELSE ResumeToken(codex, e.sessions[codex])


----------------------------------------------------------------------------
(* Properties of restarts *)

(* A new store instance opened on the file of S. *)
Restarted(S) == open_store("thread", S.disk, STATE_VERSION, _new_state).store

(* C26: after any sequence of successful mutations, a new instance of the  *)
(* thread store opened on the same file returns, for every room, thread    *)
(* and field, what the running instance returns.                           *)
C26_DurableAcrossRestarts ==
    LET S == threadStore
        N == Restarted(threadStore)
    IN \A room \in Rooms, th \in ThreadRootInputs :
           /\ get_context(N, room, th).ret = get_context(S, room, th).ret
           /\ get_default_engine(N, room, th).ret
                  = get_default_engine(S, room, th).ret
           /\ get_trigger_mode(N, room, th).ret
                  = get_trigger_mode(S, room, th).ret
           /\ \A e \in EngineInputs :
                  /\ get_engine_override(N, room, th, e).ret
                         = get_engine_override(S, room, th, e).ret
                  /\ get_session_resume(N, room, th, e).ret
                         = get_session_resume(S, room, th, e).ret

(* Two mutations succeeded, the second a set_context, and a new instance   *)
(* opened on the file returns the context that was set.                    *)
C26_Witness ==
    /\ steps = 2
    /\ last.op = "set_context"
    /\ last.wrote
    /\ get_context(Restarted(threadStore), last.room, last.thread).ret # NoneObj
    /\ get_context(Restarted(threadStore), last.room, last.thread).ret
           = get_context(threadStore, last.room, last.thread).ret


----------------------------------------------------------------------------
(* Properties of set followed by get *)

(* A text as the store keeps it: trimmed, absent when nothing is left. *)
AsStored(text) ==
    IF text = None THEN None
    ELSE IF Strip(text) = <<>> THEN None ELSE Strip(text)

(* An engine id as the store keys by it: trimmed and lowercase. *)
Folded(engine) == Lower(Strip(engine))

(* C27: on every reachable thread store, for every field and every valid   *)
(* value, a set on (room, thread) followed at once by the matching get on  *)
(* the same key returns the value trimmed, under the engine key trimmed    *)
(* and lowercased.                                                         *)
C27_SetGetRoundTrip ==
    \A room \in Rooms, th \in ThreadRootInputs :
        /\ \A context \in ContextInputs :
               AsStored(context.project) # None =>
                   get_context(set_context(threadStore, room, th, context).store,
                               room, th).ret
                       = RunContext(AsStored(context.project),
                                    AsStored(context.branch))
        /\ \A engine \in DefaultEngineInputs :
               AsStored(engine) # None =>
                   get_default_engine(
                       set_default_engine(threadStore, room, th, engine).store,
                       room, th).ret = AsStored(engine)
        /\ \A mode \in ModeInputs :
               AsStored(mode) = mentions =>
                   get_trigger_mode(
                       set_trigger_mode(threadStore, room, th, mode).store,
                       room, th).ret = mentions
        /\ \A engine \in EngineInputs, override \in OverrideInputs :
               (AsStored(override.model) # None
                    \/ AsStored(override.reasoning) # None) =>
                   \A key \in {engine, Folded(engine)} :
                       get_engine_override(
                           set_engine_override(threadStore, room, th, engine,
                                               override).store,
                           room, th, key).ret
                           = EngineOverrides(AsStored(override.model),
                                             AsStored(override.reasoning))
        /\ \A token \in ResumeInputs :
               (AsStored(token.engine) # None /\ AsStored(token.value) # None) =>
                   \A key \in {token.engine, Folded(token.engine)} :
                       get_session_resume(
                           set_session_resume(threadStore, room, th, token).store,
                           room, th, key).ret
                           = ResumeToken(Folded(token.engine),
                                         AsStored(token.value))

(* An override given with blanks around its model was set on a thread and  *)
(* the next operation, get_engine_override on that thread, returned it     *)
(* trimmed.                                                                *)
C27_Witness ==
    /\ steps = 2
    /\ last.op = "get_engine_override"
    /\ last.obj = EngineOverrides(modelB, low)
    /\ ~last.wrote


----------------------------------------------------------------------------
(* Properties of command routing *)

MutatingCommands == {"/ctx", "/agent", "/trigger", "/model", "/reasoning"}

ThreadMutators ==
    {"thread_state.set_context", "thread_state.clear_context",
     "thread_state.set_default_engine", "thread_state.clear_default_engine",
     "thread_state.set_trigger_mode", "thread_state.clear_trigger_mode",
     "thread_state.set_engine_override"}

RoomMutators ==
    {"room_prefs.set_context", "room_prefs.clear_context",
     "room_prefs.set_default_engine", "room_prefs.clear_default_engine",
     "room_prefs.set_trigger_mode", "room_prefs.clear_trigger_mode",
     "room_prefs.set_engine_override"}

(* The step changed the thread store at most at the entry of (room, th). *)
OnlyThreadChanged(room, th) ==
    \A k \in ThreadKeysOf(threadStore.mem.rooms)
                 \cup ThreadKeysOf(threadStore'.mem.rooms) :
        k # <<room, _normalize_text(th)>> =>
            LookupThread(threadStore'.mem.rooms, k[1], k[2])
                = LookupThread(threadStore.mem.rooms, k[1], k[2])

(* The step changed the room store at most at the entry of room. *)
OnlyRoomChanged(room) ==
    \A r \in (DOMAIN roomStore.mem.rooms \cup DOMAIN roomStore'.mem.rooms)
                 \ {room} :
        /\ Has(roomStore.mem.rooms, r) = Has(roomStore'.mem.rooms, r)
        /\ Has(roomStore.mem.rooms, r) =>
               roomStore'.mem.rooms[r] = roomStore.mem.rooms[r]

(* The message of the step is in a thread and a thread store is configured. *)
ThreadScoped == last'.thread # None /\ cfg.thread_state

ScopeRouted ==
    /\ Len(last'.calls) <= 1
    /\ last'.calls = <<>> =>
           /\ threadStore' = threadStore
           /\ roomStore' = roomStore
    /\ (last'.calls # <<>> /\ ThreadScoped) =>
           /\ last'.calls[1] \in ThreadMutators
           /\ roomStore' = roomStore
           /\ OnlyThreadChanged(last'.room, last'.thread)
    /\ (last'.calls # <<>> /\ ~ThreadScoped) =>
           /\ last'.calls[1] \in RoomMutators
           /\ cfg.room_prefs
           /\ threadStore' = threadStore
           /\ OnlyRoomChanged(last'.room)

SessionsCleared(room, th) ==
    LET before == LookupThread(threadStore.mem.rooms, room, _normalize_text(th))
        after == LookupThread(threadStore'.mem.rooms, room, _normalize_text(th))
    IN /\ OnlyThreadChanged(room, th)
       /\ after # NoneObj =>
              /\ before # NoneObj
              /\ after = [before EXCEPT !.sessions = EmptyDict]
       /\ (after = NoneObj /\ before # NoneObj) =>
              _thread_is_empty([before EXCEPT !.sessions = EmptyDict])
       /\ last'.wrote => threadStore'.disk = threadStore'.mem

NewRouted(scoped) ==
    /\ scoped =>
           /\ last'.calls = <<"thread_state.clear_sessions">>
           /\ SessionsCleared(last'.room, last'.thread)
           /\ roomStore' = roomStore
    /\ (~scoped /\ cfg.chat_sessions) =>
           /\ last'.calls = <<"chat_sessions.clear_sessions">>
           /\ threadStore' = threadStore
           /\ roomStore' = roomStore
    /\ (~scoped /\ ~cfg.chat_sessions) =>
           /\ last'.calls = <<>>
           /\ threadStore' = threadStore
           /\ roomStore' = roomStore

(* C29 as stated: /new for any message that has a thread root clears that  *)
(* thread's resume tokens and makes no call to the chat sessions.          *)
C29_NewRoutingAnyThread ==
    [][last'.op = "/new" => NewRouted(last'.thread # None)]_vars

(* C29: /new for a message that has a thread root, with a thread store     *)
(* configured, calls thread_state.clear_sessions once, which clears that   *)
(* thread's resume tokens only, and makes no call to the chat sessions;    *)
(* otherwise it calls chat_sessions.clear_sessions once and leaves the     *)
(* thread store as it was; with no chat-session store it makes no call.    *)
C29_NewRouting ==
    [][last'.op = "/new" => NewRouted(ThreadScoped)]_vars

(* /new in thread $1 of !r1, which held a resume token, wrote the file and *)
(* the thread holds no token any more.                                     *)
C29_Witness ==
    /\ steps = 1
    /\ last.op = "/new"
    /\ last.thread = t1
    /\ last.calls = <<"thread_state.clear_sessions">>
    /\ last.wrote
    /\ LookupThread(threadStore.mem.rooms, r1, t1) # NoneObj
    /\ LookupThread(threadStore.mem.rooms, r1, t1).sessions = EmptyDict
    /\ LookupThread(threadStore.mem.rooms, r1, t1).default_engine = claude


----------------------------------------------------------------------------
(* Properties of /repo add *)

(* The three checks of /repo add. *)
AliasAllowed(alias) == ALIAS_RE(alias)

UrlAllowed(url) ==
    /\ url # <<>>
    /\ Head(url) # "-"
    /\ ~startswith(Lower(url), file_scheme)
    /\ \E i \in 1..Len(_ALLOWED_GIT_SCHEMES) :
           startswith(url, _ALLOWED_GIT_SCHEMES[i])

AliasFresh(alias) == \A a \in ProjectKeys : Lower(a) # Lower(alias)

WritesConfig(h) ==
    \/ h.wrote
    \/ h.env.projects # repoEnv.projects
    \/ \E i \in 1..Len(h.calls) : h.calls[i].call = "write config"

(* C30: /repo add runs no git process and writes no config file unless    *)
(* the alias matches the pattern, the URL is non-empty, does not start    *)
(* with '-', is not file:// and starts with an allowed scheme, and the    *)
(* alias is not a configured project in any letter case; the checks are   *)
(* made in that order, the first that fails being the one reported; and   *)
(* the project is written to the config file only as the step after a     *)
(* git clone or fetch that returned 0.                                    *)
C30_RepoAddValidation ==
    \A alias \in AliasInputs, url \in UrlInputs, returncode \in {0, 1} :
        LET H(tokens) == _handle_repo_command(repoEnv, Message(r1, None), tokens,
                                              <<returncode, returncode>>)
            Checked(h) ==
                /\ (h.calls # <<>> \/ h.env # repoEnv) =>
                       /\ repoEnv.config_path
                       /\ AliasAllowed(Strip(alias))
                       /\ UrlAllowed(Strip(url))
                       /\ AliasFresh(Strip(alias))
                /\ repoEnv.config_path =>
                       /\ ~AliasAllowed(Strip(alias)) =>
                              h.reply.text = "invalid alias"
                       /\ (AliasAllowed(Strip(alias)) /\ ~UrlAllowed(Strip(url))) =>
                              h.reply.text = "invalid git URL"
                       /\ (AliasAllowed(Strip(alias)) /\ UrlAllowed(Strip(url))
                               /\ ~AliasFresh(Strip(alias))) =>
                              h.reply.text = "project already exists"
                /\ WritesConfig(h) =>
                       /\ Len(h.calls) = 2
                       /\ h.calls[1].call \in {"git clone", "git fetch"}
                       /\ h.calls[1].returncode = 0
                       /\ h.calls[2].call = "write config"
                       /\ h.env.projects = repoEnv.projects \cup {Strip(alias)}
                /\ (h.calls # <<>> /\ h.calls[1].returncode # 0) =>
                       /\ Len(h.calls) = 1
                       /\ ~WritesConfig(h)
        IN Checked(H(<<tok_add, alias, url>>))

(* /repo add of a new alias with an https URL cloned the repository and    *)
(* then wrote the project to the config file.                              *)
C30_Witness ==
    /\ last.op = "/repo"
    /\ last.calls = <<Effect("git clone", 0), Effect("write config", 0)>>
    /\ last.wrote
    /\ newrepo \in repoEnv.projects
    /\ newrepo \in DOMAIN repoEnv.dirs
    /\ repoEnv.dirs[newrepo] = "git"


----------------------------------------------------------------------------
(* Properties of the bound context *)

(* C31: no thread entry holds a context_branch without a non-empty         *)
(* context_project; set_context with no context or a blank project does    *)
(* what clear_context does and leaves neither project nor branch; and      *)
(* get_context returns None when the project is absent and a RunContext    *)
(* with branch None for a stored project without a branch.                 *)
C31_BoundContext ==
    /\ \A e \in AllEntries :
           /\ e.context_branch # None => e.context_project # None
           /\ e.context_project # None => Trimmed(e.context_project)
           /\ e.context_branch # None => Trimmed(e.context_branch)
    /\ \A room \in Rooms, th \in ThreadRootInputs :
           /\ \A context \in ContextInputs \cup {NoneObj} :
                  (context = NoneObj \/ AsStored(context.project) = None) =>
                      LET W(r) ==
                              /\ r = clear_context(threadStore, room, th)
                              /\ LET e == LookupThread(r.store.mem.rooms, room,
                                                       _normalize_text(th))
                                 IN e # NoneObj =>
                                        /\ e.context_project = None
                                        /\ e.context_branch = None
                      IN W(set_context(threadStore, room, th, context))
           /\ LET e == EntryOf(room, th)
                  got == get_context(threadStore, room, th).ret
              IN /\ (e = NoneObj \/ e.context_project = None) <=> got = NoneObj
                 /\ (e # NoneObj /\ e.context_project # None) =>
                        got = RunContext(e.context_project, e.context_branch)

(* A context was bound to a thread of an empty store and the next          *)
(* operation, set_context with a blank project and a branch, cleared it:   *)
(* the file was written and holds no entry.                                *)
C31_Witness ==
    /\ steps = 2
    /\ last.op = "set_context"
    /\ last.wrote
    /\ threadStore.disk # NoFile
    /\ threadStore.disk.rooms = EmptyDict
    /\ threadStore.mem.rooms = EmptyDict


----------------------------------------------------------------------------
(* Properties of resume tokens *)

(* Tokens as callers pass them: the store's inputs, a value with capitals  *)
(* and an inner blank, and a blank engine.                                 *)
OpaqueTokens ==
    ResumeInputs
        \cup {ResumeToken(<<" ","c","o","d","e","x">>, <<"T","o","K"," ","9">>),
              ResumeToken(blank, s1)}

(* C32: set_session_resume(room, thread, token) makes get_session_resume   *)
(* for that room, thread and engine return the token's value, trimmed and  *)
(* otherwise as given; it leaves the tokens of other engines of the thread *)
(* and every other thread as they were; a token whose engine or value is   *)
(* empty or blank is not stored; and no stored token is empty or blank.    *)
C32_ResumePerEngine ==
    /\ \A e \in AllEntries : \A k \in DOMAIN e.sessions :
           TrimmedLower(k) /\ Trimmed(e.sessions[k])
    /\ \A room \in Rooms, th \in ThreadRootInputs, token \in OpaqueTokens :
           LET key == Folded(token.engine)
               value == Strip(token.value)
               W(r) ==
                   IF key = <<>> \/ value = <<>>
                   THEN /\ ~r.wrote
                        /\ r.store = threadStore
                   ELSE LET before == EntryOf(room, th)
                            after == LookupThread(r.store.mem.rooms, room,
                                                  _normalize_text(th))
                            others == IF before = NoneObj THEN {}
                                      ELSE DOMAIN before.sessions \ {key}
                        IN /\ get_session_resume(r.store, room, th,
                                                 token.engine).ret
                                  = ResumeToken(key, value)
                           /\ r.store.disk = r.store.mem
                           /\ DOMAIN after.sessions = others \cup {key}
                           /\ \A k \in others :
                                  after.sessions[k] = before.sessions[k]
                           /\ \A k \in ThreadKeysOf(threadStore.mem.rooms)
                                           \cup ThreadKeysOf(r.store.mem.rooms) :
                                  k # <<room, _normalize_text(th)>> =>
                                      LookupThread(r.store.mem.rooms, k[1], k[2])
                                          = LookupThread(threadStore.mem.rooms,
                                                         k[1], k[2])
           IN W(set_session_resume(threadStore, room, th, token))

(* set_session_resume stored a token for claude, given in capitals and     *)
(* with a trailing blank, beside the thread's token for codex.             *)
C32_Witness ==
    /\ last.op = "set_session_resume"
    /\ last.wrote
    /\ LET e == LookupThread(threadStore.disk.rooms, last.room,
                             _normalize_text(last.thread))
       IN /\ e # NoneObj
          /\ DOMAIN e.sessions = {codex, claude}
          /\ e.sessions[codex] = s1
          /\ e.sessions[claude] = <<"s","2">>


----------------------------------------------------------------------------
(* Properties of stored overrides *)

(* Overrides with nothing to store: None, and fields absent or blank. *)
EmptyOverrides ==
    {NoneObj,
     EngineOverrides(None, None),
     EngineOverrides(blank, None),
     EngineOverrides(<<>>, <<" ", " ">>)}

(* C33: every stored engine override has a model or a reasoning level that *)
(* is non-empty and trimmed, and set_engine_override with neither (both    *)
(* absent or blank) removes the engine's override from the thread.         *)
C33_NoEmptyOverride ==
    /\ \A e \in AllEntries : \A k \in DOMAIN e.engine_overrides :
           LET o == e.engine_overrides[k]
           IN /\ o.model # None \/ o.reasoning # None
              /\ o.model # None => Trimmed(o.model)
              /\ o.reasoning # None => Trimmed(o.reasoning)
    /\ \A room \in Rooms, th \in ThreadRootInputs, engine \in EngineInputs,
          override \in EmptyOverrides :
           LET W(r) ==
                   LET after == LookupThread(r.store.mem.rooms, room,
                                             _normalize_text(th))
                   IN /\ after # NoneObj =>
                             Folded(engine) \notin DOMAIN after.engine_overrides
                      /\ get_engine_override(r.store, room, th, engine).ret
                             = NoneObj
                      /\ r.wrote => r.store.disk = r.store.mem
           IN W(set_engine_override(threadStore, room, th, engine, override))

(* set_engine_override with a blank model removed the only override of a   *)
(* thread, and with it the thread's entry, in memory and in the file.      *)
C33_Witness ==
    /\ last.op = "set_engine_override"
    /\ last.wrote
    /\ last.room = r2
    /\ threadStore.disk = threadStore.mem
    /\ LookupThread(threadStore.mem.rooms, r2, t2) = NoneObj
    /\ LookupThread(threadStore.mem.rooms, r1, t1) # NoneObj


----------------------------------------------------------------------------
(* Properties of concurrent override updates *)

(* The override stored for engine in the scope of msg. *)
OverrideInScope(msg, engine) ==
    IF _thread_scope(msg, cfg) # None
    THEN get_engine_override(threadStore, msg.room_id,
                             _thread_scope(msg, cfg), engine).ret
    ELSE room_get_engine_override(roomStore, msg.room_id, engine).ret

(* C34: when one handler has set the model and another the reasoning level *)
(* of the same engine in the same scope, and both have completed, the      *)
(* stored override has that model and that reasoning level.                *)
C34_NoLostUpdate ==
    \A i \in Handlers, j \in Handlers :
        (/\ sched.pc[i] = "done"
         /\ sched.pc[j] = "done"
         /\ sched.op[i].op = "update"
         /\ sched.op[j].op = "update"
         /\ sched.op[i].arg.msg = sched.op[j].arg.msg
         /\ sched.op[i].arg.engine = sched.op[j].arg.engine
         /\ sched.op[i].arg.update.field = "model"
         /\ sched.op[j].arg.update.field = "reasoning")
        => OverrideInScope(sched.op[i].arg.msg, sched.op[i].arg.engine)
               = EngineOverrides(sched.op[i].arg.update.value,
                                 sched.op[j].arg.update.value)


----------------------------------------------------------------------------
(* Properties of /trigger in a thread *)

(* C35: once /trigger all has been handled for a message in a thread, with *)
(* the reply that the thread trigger mode is set to `all`, the trigger     *)
(* mode resolved for messages in that thread is "all", whatever the room   *)
(* has stored.                                                             *)
C35_ThreadAllResolvesAll ==
    (/\ last.op = "/trigger"
     /\ last.obj = Reply("thread trigger mode set to", [mode |-> all]))
    => resolve_trigger_mode(threadStore, roomStore, cfg, last.room,
                            last.thread).ret = all


----------------------------------------------------------------------------
(* Properties of trigger-mode normalization in the two scopes *)

(* Mode texts as callers pass them. *)
ModeSpellings ==
    ModeInputs \cup {<<" "," ","m","e","n","t","i","o","n","s"," "," ">>,
                     <<"A","L","L">>, <<>>}

(* C36: for every mode text, set_trigger_mode followed by get_trigger_mode *)
(* returns "mentions" in the thread store exactly when the same two calls  *)
(* return "mentions" in the room store.                                    *)
C36_SameNormalization ==
    \A room \in Rooms, th \in ThreadRootInputs, mode \in ModeSpellings :
        LET InThread(r) == get_trigger_mode(r.store, room, th).ret
            InRoom(r) == room_get_trigger_mode(r.store, room).ret
        IN (InThread(set_trigger_mode(threadStore, room, th, mode)) = mentions)
               <=> (InRoom(room_set_trigger_mode(roomStore, room, mode)) = mentions)


----------------------------------------------------------------------------
(* Properties of isolation between entries and fields *)

(* The field a thread-store method sets or clears. *)
FieldOf(op) ==
    IF op \in {"set_session_resume", "clear_sessions"} THEN "sessions"
    ELSE IF op \in {"set_context", "clear_context"} THEN "context"
    ELSE IF op \in {"set_default_engine", "clear_default_engine"}
    THEN "default_engine"
    ELSE IF op \in {"set_trigger_mode", "clear_trigger_mode"} THEN "trigger_mode"
    ELSE IF op \in {"set_engine_override", "clear_engine_override"}
    THEN "engine_overrides"
    ELSE "none"

ClearOps ==
    {"clear_sessions", "clear_context", "clear_default_engine",
     "clear_trigger_mode", "clear_engine_override"}

(* The entry with field f left out; an absent entry has no field. *)
Without(e, f) ==
    LET Entry(x) ==
            IF f = "sessions" THEN [x EXCEPT !.sessions = EmptyDict]
            ELSE IF f = "context"
            THEN [x EXCEPT !.context_project = None, !.context_branch = None]
            ELSE IF f = "default_engine" THEN [x EXCEPT !.default_engine = None]
            ELSE IF f = "trigger_mode" THEN [x EXCEPT !.trigger_mode = None]
            ELSE IF f = "engine_overrides"
            THEN [x EXCEPT !.engine_overrides = EmptyDict]
            ELSE x
    IN Entry(IF e = NoneObj THEN _new_thread_entry ELSE e)

(* C37: a set or clear of one field of (room, thread) leaves every other   *)
(* field of that entry, every other thread of the room and every other     *)
(* room as they were; the entry is removed only if all its fields are then *)
(* absent; and a clear for a room or thread that has no entry changes      *)
(* nothing.                                                                *)
C37_Isolation ==
    [][FieldOf(last'.op) # "none" =>
           LET f == FieldOf(last'.op)
               key == <<last'.room, _normalize_text(last'.thread)>>
               before == threadStore.mem.rooms
               after == threadStore'.mem.rooms
               old == LookupThread(before, key[1], key[2])
               new == LookupThread(after, key[1], key[2])
           IN /\ \A k \in ThreadKeysOf(before) \cup ThreadKeysOf(after) :
                     k # key => LookupThread(after, k[1], k[2])
                                    = LookupThread(before, k[1], k[2])
              /\ DOMAIN after \ {key[1]} = DOMAIN before \ {key[1]}
              /\ Without(new, f) = Without(old, f)
              /\ (old # NoneObj /\ new = NoneObj) => ~EntryHasData(Without(old, f))
              /\ last'.wrote => threadStore'.disk = threadStore'.mem
              /\ (last'.op \in ClearOps /\ old = NoneObj) =>
                     /\ threadStore' = threadStore
                     /\ ~last'.wrote]_vars

(* set_trigger_mode stored "mentions" on a thread that keeps its resume    *)
(* token, next to the entry of another room.                               *)
C37_Witness ==
    /\ last.op = "set_trigger_mode"
    /\ last.wrote
    /\ last.room = r1
    /\ LookupThread(threadStore.mem.rooms, r1, t1) # NoneObj
    /\ LookupThread(threadStore.mem.rooms, r1, t1).trigger_mode = mentions
    /\ LookupThread(threadStore.mem.rooms, r1, t1).sessions # EmptyDict
    /\ LookupThread(threadStore.mem.rooms, r2, t2) # NoneObj


----------------------------------------------------------------------------
(* Properties of rejected commands *)

at_dev == <<"@","d","e","v">>

(* Arguments the handlers reject: an engine that is not configured, an     *)
(* engine without reasoning support, a level that is not allowed, a        *)
(* project that is not configured, a branch without @, missing or surplus  *)
(* arguments, and an unknown action.                                       *)
RejectedAgentTokens == {<<tok_set>>, <<tok_set, opus>>, <<opus>>}

RejectedModelTokens ==
    {<<tok_set>>, <<tok_set, opus, modelA>>, <<tok_clear, opus>>,
     <<tok_clear, codex, modelA>>, <<opus>>}

RejectedReasoningTokens ==
    {<<tok_set>>, <<tok_set, claude, high>>, <<tok_set, codex, opus>>,
     <<tok_set, opus>>, <<tok_clear, opus>>, <<tok_clear, codex, high>>,
     <<opus>>}

RejectedCtxTokens ==
    {<<tok_set>>, <<tok_set, opus>>, <<tok_set, app, dev>>,
     <<tok_set, app, at_dev, dev>>, <<opus>>}

RejectedTriggerTokens == {<<opus>>, <<tok_set, mentions>>}

RejectionTexts ==
    {"AGENT_USAGE", "MODEL_USAGE", "REASONING_USAGE", "TRIGGER_USAGE",
     "unknown engine", "engine does not support reasoning overrides.",
     "unknown reasoning level", "error", "unknown /ctx command"}

(* The handler replied with an error or its usage and did nothing else. *)
Rejects(h) ==
    /\ h.reply.text \in RejectionTexts
    /\ h.calls = <<>>
    /\ ~h.wrote
    /\ h.ts = threadStore
    /\ h.rs = roomStore

(* C38: /agent set with an engine that is not configured, /reasoning set   *)
(* with an engine that does not support reasoning or a level that is not   *)
(* allowed, /model clear and /reasoning clear naming an unknown engine,    *)
(* /ctx set with an unknown project or malformed arguments, and every      *)
(* command with a usage error reply with an error or the usage and make no *)
(* mutating call on the room or the thread store.                          *)
C38_RejectedNoMutation ==
    \A msg \in Messages, context \in AmbientInputs :
        /\ \A tokens \in RejectedAgentTokens :
               Rejects(_handle_agent_command(threadStore, roomStore, cfg, msg,
                                             tokens, context))
        /\ \A tokens \in RejectedModelTokens :
               Rejects(_handle_model_command(threadStore, roomStore, cfg, msg,
                                             tokens, context))
        /\ \A tokens \in RejectedReasoningTokens :
               Rejects(_handle_reasoning_command(threadStore, roomStore, cfg,
                                                 msg, tokens, context))
        /\ \A tokens \in RejectedCtxTokens
                  \cup (IF context = NoneObj THEN {<<tok_set, at_dev>>} ELSE {}) :
               Rejects(_handle_ctx_command(threadStore, roomStore, cfg, msg,
                                           tokens, context))
        /\ \A tokens \in RejectedTriggerTokens :
               Rejects(_handle_trigger_command(threadStore, roomStore, cfg, msg,
                                               tokens))

(* /agent set opus was answered with `unknown engine` after an earlier     *)
(* command had written the thread store; no store call was made.           *)
C38_Witness ==
    /\ steps = 2
    /\ last.op = "/agent"
    /\ last.obj = Reply("unknown engine", [engine |-> Lower(opus)])
    /\ last.calls = <<>>
    /\ ~last.wrote
    /\ threadStore.disk # NoFile


----------------------------------------------------------------------------
(* Properties of lock release *)

(* C39: under fair scheduling a task that holds the store's lock releases  *)
(* it, whether its method saves, returns without saving or raises from the *)
(* save; no task waits for the lock while it holds it (clear_context calls *)
(* set_context without holding the lock); every call that was started      *)
(* completes; and when no call is in progress the lock is free.            *)
C39_LockReleased ==
    /\ [](\A i \in FairTasks : sched.pc[i] = "waiting" => sched.holder # i)
    /\ []((\A i \in FairTasks : sched.pc[i] \in {"idle", "done"})
              => sched.holder = 0)
    /\ \A i \in FairTasks : (sched.holder = i) ~> (sched.holder # i)
    /\ \A i \in FairTasks : (sched.pc[i] # "idle") ~> (sched.pc[i] = "done")

(* Two calls have completed and the lock is free: a clear_context, and    *)
(* after it a call whose save raised and left the file behind memory.      *)
C39_Witness ==
    /\ \A i \in FairTasks : sched.pc[i] = "done"
    /\ sched.holder = 0
    /\ Len(sched.order) = 2
    /\ sched.order[1] = Op("set_context", r1, t1, NoneObj)
    /\ last.op = "raise"
    /\ threadStore.disk # NoFile
    /\ threadStore.mem # threadStore.disk


----------------------------------------------------------------------------
(* Properties of blank keys *)

(* What a method returns for nothing: the getters of tokens, contexts and  *)
(* overrides return no object, every other method no text.                 *)
NothingOf(op) ==
    IF op \in {"get_session_resume", "get_context", "get_engine_override"}
    THEN NoneObj ELSE None

(* The call wrote nothing, left memory, file and load mark as they were    *)
(* and returned nothing.                                                   *)
NoOp(r, nothing) ==
    /\ ~r.wrote
    /\ r.store = threadStore
    /\ r.ret = nothing

(* C40: a set, clear or get with an empty or blank thread root id, and a   *)
(* per-engine set, clear or get with an empty or blank engine id, changes  *)
(* neither the in-memory nor the stored document, writes nothing, and the  *)
(* get returns None.                                                       *)
C40_BlankKeysNoOp ==
    /\ \A room \in Rooms, th \in BlankKeys :
           /\ \A op \in ThreadMethods, e \in EngineInputs :
                  NoOp(ThreadMethod(threadStore, op, room, th, e), NothingOf(op))
           /\ \A token \in ResumeInputs :
                  NoOp(set_session_resume(threadStore, room, th, token), None)
           /\ \A context \in ContextInputs \cup {NoneObj} :
                  NoOp(set_context(threadStore, room, th, context), None)
           /\ \A e \in DefaultEngineInputs \cup {None} :
                  NoOp(set_default_engine(threadStore, room, th, e), None)
           /\ \A mode \in ModeInputs \cup {None} :
                  NoOp(set_trigger_mode(threadStore, room, th, mode), None)
           /\ \A e \in EngineInputs, override \in OverrideInputs \cup {NoneObj} :
                  NoOp(set_engine_override(threadStore, room, th, e, override),
                       None)
    /\ \A room \in Rooms, th \in ThreadRootInputs, e \in BlankKeys :
           /\ \A op \in EngineMethods :
                  NoOp(ThreadMethod(threadStore, op, room, th, e), NothingOf(op))
           /\ \A override \in OverrideInputs \cup {NoneObj} :
                  NoOp(set_engine_override(threadStore, room, th, e, override),
                       None)

(* set_context was called with a blank thread root id on a store that      *)
(* holds entries; nothing was written and nothing returned.                *)
C40_Witness ==
    /\ steps = 2
    /\ last.op = "set_context"
    /\ last.thread = blank
    /\ ~last.wrote
    /\ last.obj = None
    /\ threadStore.mem.rooms # EmptyDict
    /\ threadStore.disk = threadStore.mem

====
